---- MODULE Spec2Model ----
(***************************************************************************)
(* State-machine model of cugraph's single-GPU graph implementation,       *)
(* simpleGraphImpl (python/cugraph/cugraph/structure/graph_implementation/ *)
(* simpleGraph.py): construction from an edge list or an adjacency list,   *)
(* the lazily derived coordinate / adjacency / transposed-adjacency views, *)
(* the memoized properties and the structural queries.                     *)
(*                                                                         *)
(* Python's None is the empty tuple and a present value x is <<x>>.        *)
(* A data frame is [cols, rows]: the attribute columns it carries and its  *)
(* rows; a row is [src, dst, weights, edge_id, edge_type], a column the    *)
(* frame does not carry holding 0.                                         *)
(***************************************************************************)
EXTENDS Integers, Sequences, FiniteSets, Bags, TLC

\* ------------------------------------------------------------------ bounds
\* vertex identifiers of an input are drawn from 0..MaxId
MaxId == 1
\* an input edge list has at most MaxEdges rows
MaxEdges == 2
\* edge weights of an input are drawn from 1..MaxWeight
MaxWeight == 2

\* ------------------------------------------------------- class attributes
edgeWeightCol == "weights"
edgeIdCol == "edge_id"
edgeTypeCol == "edge_type"
srcCol == "src"
dstCol == "dst"

\* ----------------------------------------------------------------- basics
None == <<>>
Some(x) == <<x>>
The(o) == o[1]

Ids == 0..MaxId
Weights == 1..MaxWeight

Max(a, b) == IF a >= b THEN a ELSE b

RECURSIVE SeqSum(_)
SeqSum(s) == IF s = <<>> THEN 0 ELSE Head(s) + SeqSum(Tail(s))

\* the multiset of the elements of a sequence
BagOfSeq(s) ==
  LET range == {s[i] : i \in DOMAIN s}
  IN  [x \in range |-> Cardinality({i \in DOMAIN s : s[i] = x})]

\* the elements of a finite set of integers in ascending order
RECURSIVE SortedSeq(_)
SortedSeq(S) ==
  IF S = {} THEN <<>>
  ELSE LET m == CHOOSE x \in S : \A y \in S : x <= y
       IN  <<m>> \o SortedSeq(S \ {m})

\* the position (1-based) of the first occurrence of x in s, 0 when absent
IndexOf(s, x) ==
  IF \E i \in DOMAIN s : s[i] = x
  THEN CHOOSE i \in DOMAIN s : s[i] = x /\ \A j \in 1..(i - 1) : s[j] /= x
  ELSE 0

Row(s, d, w, i, t) ==
  [src |-> s, dst |-> d, weights |-> w, edge_id |-> i, edge_type |-> t]

Swap(r) == [r EXCEPT !.src = r.dst, !.dst = r.src]

Pair(r) == <<r.src, r.dst>>

\* the endpoints that occur in a sequence of rows
Endpoints(rows) ==
  {rows[i].src : i \in DOMAIN rows} \cup {rows[i].dst : i \in DOMAIN rows}

\* cudf.concat([src, dst]).unique(): the distinct endpoints in order of
\* appearance, the source column first
RECURSIVE Unique(_)
Unique(s) ==
  IF s = <<>> THEN <<>>
  ELSE LET init == Unique(SubSeq(s, 1, Len(s) - 1))
           last == s[Len(s)]
       IN  IF IndexOf(init, last) > 0 THEN init ELSE Append(init, last)

ConcatSrcDst(rows) ==
  [i \in 1..Len(rows) |-> rows[i].src] \o [i \in 1..Len(rows) |-> rows[i].dst]

\* ------------------------------------------ collaborators outside this file
\* cugraph.structure.symmetrize.symmetrize: with symmetrize set, every row
\* (u,v,attr) with u /= v is emitted as (u,v,attr) and (v,u,attr) and every
\* self-loop once
AddReverseEdges(rows) ==
  LET nonloops == SelectSeq(rows, LAMBDA r : r.src /= r.dst)
  IN  rows \o [i \in 1..Len(nonloops) |-> Swap(nonloops[i])]

\* duplicate (u,v) pairs merged into one row, at the place of the first: the
\* weights of the merged rows are summed, any other value is the last one's
RECURSIVE MergeDuplicates(_, _)
MergeDuplicates(rows, weighted) ==
  IF rows = <<>> THEN <<>>
  ELSE LET h == Head(rows)
           same == SelectSeq(rows, LAMBDA r : Pair(r) = Pair(h))
           rest == SelectSeq(Tail(rows), LAMBDA r : Pair(r) /= Pair(h))
           last == same[Len(same)]
           merged == IF weighted
                     THEN [last EXCEPT !.weights =
                             SeqSum([i \in 1..Len(same) |-> same[i].weights])]
                     ELSE last
       IN  <<merged>> \o MergeDuplicates(rest, weighted)

\* symmetrize(df, src, dst, value_cols, multi, symmetrize): cols are the
\* attribute columns handed over (canonical names)
Symmetrize(rows, cols, multi, symm) ==
  LET sym == IF symm THEN AddReverseEdges(rows) ELSE rows
  IN  IF multi \/ edgeIdCol \in cols \/ edgeTypeCol \in cols
      THEN sym
      ELSE MergeDuplicates(sym, edgeWeightCol \in cols)

\* the integer widths a vertex column may have without renumbering
IntDtypes == {"int32", "int64"}

\* NumberMap.renumber: the external identifiers, sorted, are numbered
\* 0..V-1; numbering is skipped (is_renumbered false) only when the
\* identifiers are integers that already are 0..V-1
NumberMapRenumber(dtype, rows) ==
  LET ext == SortedSeq(Endpoints(rows))
      active == ~(dtype \in IntDtypes /\ Endpoints(rows) = 0..(Len(ext) - 1))
      int(x) == IF active THEN IndexOf(ext, x) - 1 ELSE x
  IN  [elist |-> [i \in 1..Len(rows) |->
                    [rows[i] EXCEPT !.src = int(@), !.dst = int(@)]],
       renumber_map |-> [is_renumbered |-> active,
                         df_internal_to_external |-> ext]]

\* renumber_map.to_internal_vertex_id on one identifier: None when unknown
ToInternal(map, x) ==
  IF IndexOf(map.df_internal_to_external, x) = 0 THEN None
  ELSE Some(IndexOf(map.df_internal_to_external, x) - 1)

\* renumber_map.unrenumber / from_internal_vertex_id on one internal id
\* (an id the map does not hold comes back as the null value NA)
NA == -1
ToExternal(map, i) ==
  IF i + 1 \in DOMAIN map.df_internal_to_external
  THEN map.df_internal_to_external[i + 1] ELSE NA

Unrenumber(map, rows) ==
  [i \in 1..Len(rows) |->
     [rows[i] EXCEPT !.src = ToExternal(map, @), !.dst = ToExternal(map, @)]]

\* pylibcugraph.SGGraph with do_expensive_check: a coordinate input must have
\* vertex ids that are exactly 0..V-1 and arrays of one length, a compressed
\* input monotone offsets from 0 to E and indices below V
ValidCOO(src, dst, weight) ==
  LET ids == {src[i] : i \in DOMAIN src} \cup {dst[i] : i \in DOMAIN dst}
  IN  /\ Len(src) = Len(dst)
      /\ weight /= None => Len(The(weight)) = Len(src)
      /\ ids = 0..(Cardinality(ids) - 1)

ValidCSR(offsets, indices, weight) ==
  /\ Len(offsets) >= 1
  /\ offsets[1] = 0
  /\ offsets[Len(offsets)] = Len(indices)
  /\ \A i \in 1..(Len(offsets) - 1) : offsets[i] <= offsets[i + 1]
  /\ \A k \in DOMAIN indices : indices[k] \in 0..(Len(offsets) - 2)
  /\ weight /= None => Len(The(weight)) = Len(indices)

\* a sequence of [key, row] in ascending order of key, equal keys in their
\* given order
RECURSIVE SortKeyed(_)
SortKeyed(s) ==
  IF s = <<>> THEN <<>>
  ELSE LET init == SortKeyed(SubSeq(s, 1, Len(s) - 1))
           x == s[Len(s)]
           before == SelectSeq(init, LAMBDA r : r.key <= x.key)
           after == SelectSeq(init, LAMBDA r : r.key > x.key)
       IN  before \o <<x>> \o after

SortRows(keyed) ==
  LET sorted == SortKeyed(keyed)
  IN  [i \in 1..Len(keyed) |-> sorted[i].row]

\* the number of vertices a coordinate list spans: its largest id plus one
SpanOf(rows) ==
  IF rows = <<>> THEN 0
  ELSE 1 + CHOOSE m \in Endpoints(rows) : \A x \in Endpoints(rows) : x <= m

\* the end of a row a compressed view groups by, and the end it lists
MajorOf(r, transposed) == IF transposed THEN r.dst ELSE r.src

MinorOf(r, transposed) == IF transposed THEN r.src ELSE r.dst

\* coordinate rows grouped by source (by destination when transposed) into
\* compressed form over V vertices, the entries of a group in ascending order
Compress(rows, V, weighted, transposed) ==
  LET sorted == SortRows([i \in 1..Len(rows) |->
                            [key |-> MajorOf(rows[i], transposed) * (V + 1)
                                       + MinorOf(rows[i], transposed),
                             row |-> rows[i]]])
  IN  [offsets |-> [i \in 1..(V + 1) |->
                      Len(SelectSeq(rows, LAMBDA r :
                                      MajorOf(r, transposed) < i - 1))],
       indices |-> [k \in 1..Len(sorted) |-> MinorOf(sorted[k], transposed)],
       weights |-> IF weighted
                   THEN Some([k \in 1..Len(sorted) |-> sorted[k].weights])
                   ELSE None]

\* the row (0-based) that entry k (1-based) of a compressed view lies in
RowOfEntry(offsets, k) ==
  CHOOSE i \in 0..(Len(offsets) - 2) : offsets[i + 1] < k /\ k <= offsets[i + 2]

\* a compressed view expanded into <<row, column, weight>> triples
Expand(adj) ==
  [k \in 1..Len(adj.indices) |->
     <<RowOfEntry(adj.offsets, k), adj.indices[k],
       IF adj.weights = None THEN 0 ELSE The(adj.weights)[k]>>]

ExpandForward(adj) ==
  LET e == Expand(adj)
  IN  [k \in 1..Len(e) |-> Row(e[k][1], e[k][2], e[k][3], 0, 0)]

ExpandTransposed(adj) ==
  LET e == Expand(adj)
  IN  [k \in 1..Len(e) |-> Row(e[k][2], e[k][1], e[k][3], 0, 0)]

\* ------------------------------------------------------------------ state
VARIABLES
  edgelist,            \* None or the EdgeList: [edgelist_df, weights]
  input_df,            \* None or the input frame: [dtype, cols, rows]
  adjlist,             \* None or the AdjList: [offsets, indices, weights]
  transposedadjlist,   \* None or the transposedAdjList, same shape
  renumber_map,        \* None or [is_renumbered, df_internal_to_external]
  properties,          \* the Properties object
  source_columns,      \* None or the source column name
  destination_columns, \* None or the destination column name
  vertex_columns,      \* None or <<source, destination>>
  weight_column,       \* None or the weight column name
  plc_graph,           \* None or what the last backend build was handed
  op,                  \* the method called last, with its arguments
  err,                 \* None or the exception the last call raised
  ret,                 \* None or the value the last call returned
  wrapper_call         \* None or the graph_primtypes_wrapper derivation the
                       \* last call ran

vars ==
  <<edgelist, input_df, adjlist, transposedadjlist, renumber_map, properties,
    source_columns, destination_columns, vertex_columns, weight_column,
    plc_graph, op, err, ret, wrapper_call>>

\* the fields of the object that a call may change
object ==
  <<edgelist, input_df, adjlist, transposedadjlist, renumber_map, properties,
    source_columns, destination_columns, vertex_columns, weight_column,
    plc_graph>>

Raised(type, line) == Some([type |-> type, line |-> line])

\* simpleGraphImpl.Properties.__init__
Properties(directed, multi_edge) ==
  [multi_edge |-> multi_edge, directed |-> directed, renumbered |-> FALSE,
   self_loop |-> None, node_count |-> None, edge_count |-> None,
   weighted |-> FALSE]

\* simpleGraphImpl.__init__, for every Properties argument
Init ==
  /\ edgelist = None
  /\ input_df = None
  /\ adjlist = None
  /\ transposedadjlist = None
  /\ renumber_map = None
  /\ \E directed \in BOOLEAN, multi_edge \in BOOLEAN :
       properties = Properties(directed, multi_edge)
  /\ source_columns = None
  /\ destination_columns = None
  /\ vertex_columns = None
  /\ weight_column = None
  /\ plc_graph = None
  /\ op = <<"__init__">>
  /\ err = None
  /\ ret = None
  /\ wrapper_call = None

\* a data frame restricted to the attribute columns `cols`
Frame(cols, rows) ==
  [cols |-> cols,
   rows |-> [i \in 1..Len(rows) |->
               Row(rows[i].src, rows[i].dst,
                   IF edgeWeightCol \in cols THEN rows[i].weights ELSE 0,
                   IF edgeIdCol \in cols THEN rows[i].edge_id ELSE 0,
                   IF edgeTypeCol \in cols THEN rows[i].edge_type ELSE 0)]]

\* simpleGraphImpl.EdgeList.__init__: cols are the attributes that are not
\* None (a bare weight series is cols = {edgeWeightCol})
EdgeList(rows, cols) ==
  [edgelist_df |-> Frame(cols, rows), weights |-> edgeWeightCol \in cols]

\* simpleGraphImpl.AdjList.__init__
AdjList(offsets, indices, value) ==
  [offsets |-> offsets, indices |-> indices, weights |-> value]

Column(rows, name) == [i \in 1..Len(rows) |-> rows[i][name]]

\* weight_col.astype("float64"): the integer weights as a column of another
\* dtype, the column it is taken from left as it is
AsType(col, dtype) == [dtype |-> dtype, values |-> col]

\* the weight array of the backend: integer weights are cast to floating point
CastWeights(weight_col) ==
  IF weight_col = None THEN None ELSE Some(AsType(The(weight_col), "float64"))

\* _make_plc_graph had it taken the weight column out of the edge list frame
MakePlcGraphTakesWeights(el, adj, weight_col, id_col, type_col, renumber, props) ==
  LET taken == IF el = None THEN None
               ELSE Some([The(el) EXCEPT
                            !.edgelist_df.cols = @ \ {edgeWeightCol}])
      src == Column(The(el).edgelist_df.rows, srcCol)
      dst == Column(The(el).edgelist_df.rows, dstCol)
  IN  IF el = None
      THEN [stop |-> 1132, type |-> "TypeError", graph |-> None,
            el |-> el, adj |-> adj]
      ELSE [stop |-> IF ValidCOO(src, dst, weight_col) THEN 0 ELSE 1154,
            type |-> "FormatValidationError",
            graph |-> [input_array_format |-> "COO",
                       src_or_offset_array |-> src,
                       dst_or_index_array |-> dst,
                       weight_array |-> CastWeights(weight_col),
                       edge_id_array |-> id_col,
                       edge_type_array |-> type_col,
                       is_multigraph |-> props.multi_edge,
                       is_symmetric |-> ~props.directed,
                       renumber |-> renumber],
            el |-> taken, adj |-> adj]

\* _make_plc_graph: the arrays handed to SGGraph, whether its expensive
\* check accepts them, and the representations of the graph after the call
\* (el, adj).  weight, id and type are None or the arrays.
MakePlcGraph(el, adj, weight_col, id_col, type_col, renumber, props) ==
  IF el /= None
  THEN LET df == The(el).edgelist_df
           src == Column(df.rows, srcCol)
           dst == Column(df.rows, dstCol)
       IN  [stop |-> IF ValidCOO(src, dst, weight_col) THEN 0 ELSE 1154,
            type |-> "FormatValidationError",
            graph |-> [input_array_format |-> "COO",
                       src_or_offset_array |-> src,
                       dst_or_index_array |-> dst,
                       weight_array |-> CastWeights(weight_col),
                       edge_id_array |-> id_col,
                       edge_type_array |-> type_col,
                       is_multigraph |-> props.multi_edge,
                       is_symmetric |-> ~props.directed,
                       renumber |-> renumber],
            el |-> el, adj |-> adj]
  ELSE IF adj /= None
  THEN LET a == The(adj)
       IN  [stop |-> IF ValidCSR(a.offsets, a.indices, weight_col)
                     THEN 0 ELSE 1154,
            type |-> "FormatValidationError",
            graph |-> [input_array_format |-> "CSR",
                       src_or_offset_array |-> a.offsets,
                       dst_or_index_array |-> a.indices,
                       weight_array |-> CastWeights(weight_col),
                       edge_id_array |-> id_col,
                       edge_type_array |-> type_col,
                       is_multigraph |-> props.multi_edge,
                       is_symmetric |-> ~props.directed,
                       renumber |-> renumber],
            el |-> el, adj |-> adj]
  ELSE [stop |-> 1132, type |-> "TypeError", graph |-> None,
        el |-> el, adj |-> adj]

Range(s) == {s[i] : i \in DOMAIN s}

\* the columns of a user's input frame, and the row field that holds each
\* attribute column
UserColumns == {"source", "destination", "w", "eid", "etype"}

Canon(name) ==
  CASE name = "w" -> edgeWeightCol
    [] name = "eid" -> edgeIdCol
    [] name = "etype" -> edgeTypeCol

\* __from_edgelist, the edge attribute arguments: the line of the raise (0 when
\* none), the attribute column list and the weight / edge_id / edge_type
\* names after it, and whether properties.weighted was set on the way.
\* edge_attr is None or [isstr, names]
AttrPlan(directed, columns, edge_attr, weight, edge_id, edge_type) ==
  IF edge_attr /= None
  THEN LET names == The(edge_attr).names
           stop == IF weight /= None \/ edge_id /= None \/ edge_type /= None
                   THEN 164
                   ELSE IF ~(Range(names) \subseteq columns) THEN 171
                   ELSE IF Len(names) /= 1 /\ Len(names) /= 3 THEN 178
                   ELSE IF Len(names) = 3 /\ ~directed THEN 187
                   ELSE 0
           three == stop = 0 /\ Len(names) = 3
       IN  [stop |-> stop,
            edge_attr |-> names,
            weight |-> IF three \/ The(edge_attr).isstr
                       THEN Some(names[1]) ELSE weight,
            edge_id |-> IF three THEN Some(names[2]) ELSE edge_id,
            edge_type |-> IF three THEN Some(names[3]) ELSE edge_type,
            weighted |-> stop = 0 \/ stop > 175]
  ELSE [stop |-> 0,
        edge_attr |-> weight \o edge_id \o edge_type,
        weight |-> weight,
        edge_id |-> edge_id,
        edge_type |-> edge_type,
        weighted |-> weight /= None]

\* whether the dataframe is symmetrized: iff the graph is undirected
SymmetrizeFlagAlwaysOff(props) == FALSE

SymmetrizeFlag(props) == ~props.directed

\* the multi argument had every graph been taken for a multigraph
MultiFlagAlwaysOn(props) == TRUE

\* the multi argument handed to symmetrize: multi=self.properties.multi_edge
MultiFlag(props) == props.multi_edge

\* the edge list had renumbering left the external identifiers in it
RenumberedEdgesKeptExternal(renumber, ren, rows) == rows

\* elist after the renumbering step: NumberMap.renumber's frame when renumber
\* is set, the input otherwise
RenumberedEdges(renumber, ren, rows) ==
  IF renumber THEN ren.elist ELSE rows

\* __from_edgelist up to the backend build, as far as it gets: the line of
\* the raise (0 when none) and the values computed on the way
FromEdgelistRun(props, adj, frame, source, destination, edge_attr, weight, edge_id, edge_type, renumber) ==
  LET plan == AttrPlan(props.directed, frame.columns, edge_attr, weight,
                       edge_id, edge_type)
      usercols == Range(plan.edge_attr)
      has(c) == c /= None /\ The(c) \in usercols
      early == IF ~({source, destination} \subseteq frame.columns) THEN 154
               ELSE IF plan.stop /= 0 THEN plan.stop
               ELSE IF ~(usercols \subseteq frame.columns) THEN 205
               ELSE IF ~renumber /\ frame.dtype \notin IntDtypes THEN 255
               ELSE 0
      \* input_df[df_columns]
      selected == Frame({Canon(c) : c \in usercols \cap UserColumns},
                        frame.rows)
      ren == NumberMapRenumber(frame.dtype, selected.rows)
      elist == RenumberedEdges(renumber, ren, selected.rows)
      sym == Symmetrize(elist, selected.cols, MultiFlag(props),
                        SymmetrizeFlag(props))
      \* value_col: the symmetrized columns under their canonical names
      value_cols == {c \in {edgeWeightCol} : has(plan.weight)}
                    \cup {c \in {edgeIdCol} : has(plan.edge_id)}
                    \cup {c \in {edgeTypeCol} : has(plan.edge_type)}
      valued == [i \in 1..Len(sym) |->
                   Row(sym[i].src, sym[i].dst,
                       IF has(plan.weight)
                       THEN sym[i][Canon(The(plan.weight))] ELSE 0,
                       IF has(plan.edge_id)
                       THEN sym[i][Canon(The(plan.edge_id))] ELSE 0,
                       IF has(plan.edge_type)
                       THEN sym[i][Canon(The(plan.edge_type))] ELSE 0)]
      new == EdgeList(valued, value_cols)
      array(c) == IF c \in value_cols
                  THEN Some(Column(new.edgelist_df.rows, c)) ELSE None
      newprops == [props EXCEPT
                     !.weighted = IF plan.weighted THEN TRUE ELSE @,
                     !.renumbered = IF renumber
                                    THEN ren.renumber_map.is_renumbered
                                    ELSE @]
      plc == MakePlcGraph(Some(new), adj, array(edgeWeightCol),
                          array(edgeIdCol), array(edgeTypeCol), renumber,
                          newprops)
  IN  IF early /= 0 /\ early < 225
      THEN [stop |-> early,
            type |-> IF early = 205 THEN "KeyError" ELSE "ValueError",
            plan |-> plan]
      ELSE IF early /= 0
      THEN [stop |-> early, type |-> "ValueError", plan |-> plan,
            input_df |-> [dtype |-> frame.dtype, cols |-> selected.cols,
                          rows |-> selected.rows]]
      ELSE [stop |-> plc.stop, type |-> plc.type, plan |-> plan,
            input_df |-> [dtype |-> frame.dtype, cols |-> selected.cols,
                          rows |-> selected.rows],
            renumber_map |-> ren.renumber_map, edgelist |-> new,
            properties |-> newprops, graph |-> plc.graph]

\* __from_edgelist(input_df, source, destination, edge_attr, weight, edge_id,
\* edge_type, renumber) on a cudf frame [dtype, columns, rows]
FromEdgelist(frame, source, destination, edge_attr, weight, edge_id, edge_type, renumber) ==
  \E run \in {FromEdgelistRun(properties, adjlist, frame, source, destination,
                              edge_attr, weight, edge_id, edge_type,
                              renumber)} :
    LET stop == run.stop
        Reached(line) == stop = 0 \/ stop > line
    IN  /\ vertex_columns' = IF Reached(160)
                             THEN Some(<<source, destination>>)
                             ELSE vertex_columns
        /\ properties' =
             IF Reached(255) THEN run.properties
             ELSE [properties EXCEPT
                     !.weighted = IF run.plan.weighted /\ Reached(154)
                                  THEN TRUE ELSE @]
        /\ input_df' = IF Reached(225) THEN Some(run.input_df) ELSE input_df
        /\ weight_column' = IF Reached(226) THEN run.plan.weight
                            ELSE weight_column
        /\ source_columns' = IF Reached(227) THEN Some(source)
                             ELSE source_columns
        /\ destination_columns' = IF Reached(228) THEN Some(destination)
                                  ELSE destination_columns
        /\ renumber_map' = IF renumber /\ Reached(246)
                           THEN Some(run.renumber_map)
                           ELSE IF Reached(231) THEN None ELSE renumber_map
        /\ edgelist' = IF Reached(295) THEN Some(run.edgelist) ELSE edgelist
        /\ plc_graph' = IF stop = 0 THEN Some(run.graph) ELSE plc_graph
        /\ UNCHANGED <<adjlist, transposedadjlist>>
        /\ op' = <<"from_edgelist">>
        /\ err' = IF stop = 0 THEN None ELSE Raised(run.type, stop)
        /\ ret' = None
        /\ wrapper_call' = None

\* __from_adjlist(offset_col, index_col, value_col, renumber)
FromAdjlist(offset_col, index_col, value_col, renumber) ==
  LET new == AdjList(offset_col, index_col, value_col)
      newprops == [properties EXCEPT
                     !.weighted = IF value_col /= None THEN TRUE ELSE @]
      plc == MakePlcGraph(edgelist, Some(new), value_col, None, None,
                          renumber, newprops)
  IN  /\ adjlist' = Some(new)
      /\ properties' = newprops
      /\ plc_graph' = IF plc.stop = 0 THEN Some(plc.graph) ELSE plc_graph
      /\ UNCHANGED <<edgelist, input_df, transposedadjlist, renumber_map,
                     source_columns, destination_columns, vertex_columns,
                     weight_column>>
      /\ op' = <<"from_adjlist">>
      /\ err' = IF plc.stop = 0 THEN None ELSE Raised(plc.type, plc.stop)
      /\ ret' = None
      /\ wrapper_call' = None

\* ------------------------------------- graph_primtypes_wrapper derivations
\* view_edge_list(graph): the coordinate rows expanded from whichever
\* adjacency view is present
WrapperViewEdgeList(adj, tadj) ==
  IF adj /= None
  THEN [stop |-> 0, rows |-> ExpandForward(The(adj)),
        weighted |-> The(adj).weights /= None]
  ELSE IF tadj /= None
  THEN [stop |-> 0, rows |-> ExpandTransposed(The(tadj)),
        weighted |-> The(tadj).weights /= None]
  ELSE [stop |-> 418, rows |-> <<>>, weighted |-> FALSE]

\* view_adj_list(graph): the coordinate rows sorted by source and grouped,
\* or the transposed view regrouped when there is no coordinate view
WrapperViewAdjList(el, tadj) ==
  IF el /= None
  THEN [stop |-> 0,
        adj |-> Compress(The(el).edgelist_df.rows,
                         SpanOf(The(el).edgelist_df.rows), The(el).weights,
                         FALSE)]
  ELSE IF tadj /= None
  THEN [stop |-> 0,
        adj |-> Compress(ExpandTransposed(The(tadj)),
                         Len(The(tadj).offsets) - 1, The(tadj).weights /= None,
                         FALSE)]
  ELSE [stop |-> 584]

\* view_transposed_adj_list(graph): the same, grouped by destination
WrapperViewTransposedAdjList(el, adj) ==
  IF el /= None
  THEN [stop |-> 0,
        adj |-> Compress(The(el).edgelist_df.rows,
                         SpanOf(The(el).edgelist_df.rows), The(el).weights,
                         TRUE)]
  ELSE IF adj /= None
  THEN [stop |-> 0,
        adj |-> Compress(ExpandForward(The(adj)),
                         Len(The(adj).offsets) - 1, The(adj).weights /= None,
                         TRUE)]
  ELSE [stop |-> 631]

\* ------------------------------------------------------------------ views
\* the same test with the graph's direction left out
ReuseTransposedAnyDirection(tadj, props) == tadj /= None

\* whether view_adj_list takes the transposed view's arrays as they are
ReuseTransposed(tadj, props) == tadj /= None /\ props.directed = FALSE

\* view_adj_list() as it would be if it moved the transposed view's arrays
\* instead of sharing them
ViewAdjListMovesTransposed ==
  /\ op' = <<"view_adj_list">>
  /\ IF adjlist /= None
     THEN /\ UNCHANGED object
          /\ err' = None
          /\ ret' = adjlist
          /\ wrapper_call' = None
     ELSE IF ReuseTransposed(transposedadjlist, properties)
     THEN /\ adjlist' = Some(AdjList(The(transposedadjlist).offsets,
                                     The(transposedadjlist).indices,
                                     The(transposedadjlist).weights))
          /\ transposedadjlist' = None
          /\ UNCHANGED <<edgelist, input_df, renumber_map, properties,
                         source_columns, destination_columns, vertex_columns,
                         weight_column, plc_graph>>
          /\ err' = None
          /\ ret' = adjlist'
          /\ wrapper_call' = None
     ELSE \E w \in {WrapperViewAdjList(edgelist, transposedadjlist)} :
          /\ adjlist' = IF w.stop = 0 THEN Some(w.adj) ELSE adjlist
          /\ UNCHANGED <<edgelist, input_df, transposedadjlist, renumber_map,
                         properties, source_columns, destination_columns,
                         vertex_columns, weight_column, plc_graph>>
          /\ err' = IF w.stop = 0 THEN None ELSE Raised("ValueError", w.stop)
          /\ ret' = adjlist'
          /\ wrapper_call' = Some("view_adj_list")

\* view_adj_list()
ViewAdjList ==
  /\ op' = <<"view_adj_list">>
  /\ IF adjlist /= None
     THEN /\ UNCHANGED object
          /\ err' = None
          /\ ret' = adjlist
          /\ wrapper_call' = None
     ELSE IF ReuseTransposed(transposedadjlist, properties)
     THEN /\ adjlist' = Some(AdjList(The(transposedadjlist).offsets,
                                     The(transposedadjlist).indices,
                                     The(transposedadjlist).weights))
          /\ UNCHANGED <<edgelist, input_df, transposedadjlist, renumber_map,
                         properties, source_columns, destination_columns,
                         vertex_columns, weight_column, plc_graph>>
          /\ err' = None
          /\ ret' = adjlist'
          /\ wrapper_call' = None
     ELSE \E w \in {WrapperViewAdjList(edgelist, transposedadjlist)} :
          /\ adjlist' = IF w.stop = 0 THEN Some(w.adj) ELSE adjlist
          /\ UNCHANGED <<edgelist, input_df, transposedadjlist, renumber_map,
                         properties, source_columns, destination_columns,
                         vertex_columns, weight_column, plc_graph>>
          /\ err' = IF w.stop = 0 THEN None ELSE Raised("ValueError", w.stop)
          /\ ret' = adjlist'
          /\ wrapper_call' = Some("view_adj_list")

\* whether view_transposed_adj_list takes the forward view's arrays as they are
ReuseForward(adj, props) == adj /= None /\ props.directed = FALSE

\* view_transposed_adj_list()
ViewTransposedAdjList ==
  /\ op' = <<"view_transposed_adj_list">>
  /\ IF transposedadjlist /= None
     THEN /\ UNCHANGED object
          /\ err' = None
          /\ ret' = transposedadjlist
          /\ wrapper_call' = None
     ELSE IF ReuseForward(adjlist, properties)
     THEN /\ transposedadjlist' = Some(AdjList(The(adjlist).offsets,
                                               The(adjlist).indices,
                                               The(adjlist).weights))
          /\ UNCHANGED <<edgelist, input_df, adjlist, renumber_map,
                         properties, source_columns, destination_columns,
                         vertex_columns, weight_column, plc_graph>>
          /\ err' = None
          /\ ret' = transposedadjlist'
          /\ wrapper_call' = None
     ELSE \E w \in {WrapperViewTransposedAdjList(edgelist, adjlist)} :
          /\ transposedadjlist' = IF w.stop = 0 THEN Some(w.adj)
                                  ELSE transposedadjlist
          /\ UNCHANGED <<edgelist, input_df, adjlist, renumber_map,
                         properties, source_columns, destination_columns,
                         vertex_columns, weight_column, plc_graph>>
          /\ err' = IF w.stop = 0 THEN None ELSE Raised("ValueError", w.stop)
          /\ ret' = transposedadjlist'
          /\ wrapper_call' = Some("view_transposed_adj_list")

\* delete_edge_list()
DeleteEdgeList ==
  /\ edgelist' = None
  /\ UNCHANGED <<input_df, adjlist, transposedadjlist, renumber_map,
                 properties, source_columns, destination_columns,
                 vertex_columns, weight_column, plc_graph>>
  /\ op' = <<"delete_edge_list">>
  /\ err' = None
  /\ ret' = None
  /\ wrapper_call' = None

\* delete_adj_list()
DeleteAdjList ==
  /\ adjlist' = None
  /\ UNCHANGED <<edgelist, input_df, transposedadjlist, renumber_map,
                 properties, source_columns, destination_columns,
                 vertex_columns, weight_column, plc_graph>>
  /\ op' = <<"delete_adj_list">>
  /\ err' = None
  /\ ret' = None
  /\ wrapper_call' = None

\* view_edge_list, lines 421-450: whether the initial input frame is usable
UseInitialInputDf(idf) == idf /= None /\ The(idf).dtype \in IntDtypes

UpperTriangle(rows) == SelectSeq(rows, LAMBDA r : r.src <= r.dst)

\* view_edge_list, lines 452-495: the rows of the frame that is returned
ViewEdgeListRows(el, idf, props, map) ==
  IF UseInitialInputDf(idf) /\ props.directed
  THEN The(idf).rows
  ELSE IF UseInitialInputDf(idf)
  THEN IF props.renumbered
       THEN UpperTriangle(Unrenumber(The(map), el.edgelist_df.rows))
       ELSE UpperTriangle(el.edgelist_df.rows)
  ELSE IF props.renumbered
  THEN Unrenumber(The(map), IF ~props.directed
                            THEN UpperTriangle(el.edgelist_df.rows)
                            ELSE el.edgelist_df.rows)
  ELSE el.edgelist_df.rows

\* view_edge_list()
ViewEdgeList ==
  /\ op' = <<"view_edge_list">>
  /\ wrapper_call' = IF edgelist = None THEN Some("view_edge_list") ELSE None
  /\ \E w \in {IF edgelist = None
               THEN WrapperViewEdgeList(adjlist, transposedadjlist)
               ELSE [stop |-> 0]} :
       IF w.stop /= 0
       THEN /\ UNCHANGED object
            /\ err' = Raised("RuntimeError", w.stop)
            /\ ret' = None
       ELSE LET el == IF edgelist = None
                      THEN EdgeList(w.rows, IF w.weighted
                                            THEN {edgeWeightCol} ELSE {})
                      ELSE The(edgelist)
                uses_map == properties.renumbered
                            /\ ~(UseInitialInputDf(input_df)
                                 /\ properties.directed)
            IN  /\ edgelist' = Some(el)
                /\ UNCHANGED <<input_df, adjlist, transposedadjlist,
                               renumber_map, source_columns,
                               destination_columns, vertex_columns,
                               weight_column, plc_graph>>
                /\ IF uses_map /\ renumber_map = None
                   THEN /\ UNCHANGED properties
                        /\ err' = Raised("AttributeError", 464)
                        /\ ret' = None
                   ELSE \E rows \in {ViewEdgeListRows(el, input_df, properties,
                                                      renumber_map)} :
                        /\ properties' =
                             [properties EXCEPT !.edge_count = Some(Len(rows))]
                        /\ err' = None
                        /\ ret' = Some(rows)

\* ---------------------------------------------------------------- queries
\* nodes(): the line of the raise, the value returned (None, or the vertices
\* in a sequence) and properties.node_count afterwards
NodesRun(el, adj, props, map) ==
  IF el /= None
  THEN IF props.renumbered
       THEN IF map = None
            THEN [stop |-> 1282, value |-> None, node_count |-> props.node_count]
            ELSE [stop |-> 0, value |-> Some(The(map).df_internal_to_external),
                  node_count |-> props.node_count]
       ELSE [stop |-> 0,
             value |-> Some(Unique(ConcatSrcDst(The(el).edgelist_df.rows))),
             node_count |-> props.node_count]
  ELSE IF adj /= None
  THEN LET n == IF props.node_count = None
                THEN Len(The(adj).offsets) - 1 ELSE The(props.node_count)
       IN  [stop |-> 0, value |-> Some([i \in 1..n |-> i - 1]),
            node_count |-> Some(n)]
  ELSE [stop |-> 0, value |-> None, node_count |-> props.node_count]

\* nodes()
Nodes ==
  \E run \in {NodesRun(edgelist, adjlist, properties, renumber_map)} :
    /\ properties' = [properties EXCEPT !.node_count = run.node_count]
    /\ UNCHANGED <<edgelist, input_df, adjlist, transposedadjlist,
                   renumber_map, source_columns, destination_columns,
                   vertex_columns, weight_column, plc_graph>>
    /\ op' = <<"nodes">>
    /\ err' = IF run.stop = 0 THEN None ELSE Raised("AttributeError", run.stop)
    /\ ret' = IF run.stop = 0 THEN Some(run.value) ELSE None
    /\ wrapper_call' = None

\* number_of_vertices() as it would be with the emptiness test made first
NumberOfVerticesRunEmptyFirst(el, adj, tadj, props, map) ==
  IF el = None /\ adj = None /\ tadj = None
  THEN [stop |-> 816, type |-> "RuntimeError"]
  ELSE IF props.node_count /= None
  THEN [stop |-> 0, count |-> The(props.node_count)]
  ELSE IF adj /= None
  THEN [stop |-> 0, count |-> Len(The(adj).offsets) - 1]
  ELSE IF tadj /= None
  THEN [stop |-> 0, count |-> Len(The(tadj).offsets) - 1]
  ELSE LET nodes == NodesRun(el, adj, props, map)
       IN  IF nodes.stop /= 0
           THEN [stop |-> nodes.stop, type |-> "AttributeError"]
           ELSE [stop |-> 0, count |-> Len(The(nodes.value))]

\* number_of_vertices(): the line of the raise and the count
NumberOfVerticesRun(el, adj, tadj, props, map) ==
  IF props.node_count /= None
  THEN [stop |-> 0, count |-> The(props.node_count)]
  ELSE IF adj /= None
  THEN [stop |-> 0, count |-> Len(The(adj).offsets) - 1]
  ELSE IF tadj /= None
  THEN [stop |-> 0, count |-> Len(The(tadj).offsets) - 1]
  ELSE IF el /= None
  THEN LET nodes == NodesRun(el, adj, props, map)
       IN  IF nodes.stop /= 0
           THEN [stop |-> nodes.stop, type |-> "AttributeError"]
           ELSE [stop |-> 0, count |-> Len(The(nodes.value))]
  ELSE [stop |-> 816, type |-> "RuntimeError"]

\* number_of_vertices()
NumberOfVertices ==
  \E run \in {NumberOfVerticesRun(edgelist, adjlist, transposedadjlist,
                                  properties, renumber_map)} :
    /\ properties' = IF run.stop = 0
                     THEN [properties EXCEPT !.node_count = Some(run.count)]
                     ELSE properties
    /\ UNCHANGED <<edgelist, input_df, adjlist, transposedadjlist,
                   renumber_map, source_columns, destination_columns,
                   vertex_columns, weight_column, plc_graph>>
    /\ op' = <<"number_of_vertices">>
    /\ err' = IF run.stop = 0 THEN None ELSE Raised(run.type, run.stop)
    /\ ret' = IF run.stop = 0 THEN Some(run.count) ELSE None
    /\ wrapper_call' = None

\* number_of_edges(directed_edges): the line of the raise, the count and
\* properties.edge_count afterwards
NumberOfEdgesRun(directed_edges, el, adj, tadj, props) ==
  IF directed_edges /\ el /= None
  THEN [stop |-> 0, count |-> Len(The(el).edgelist_df.rows),
        edge_count |-> props.edge_count]
  ELSE IF props.edge_count /= None
  THEN [stop |-> 0, count |-> The(props.edge_count),
        edge_count |-> props.edge_count]
  ELSE IF el /= None
  THEN LET n == IF props.directed = FALSE
                THEN Len(SelectSeq(The(el).edgelist_df.rows,
                                   LAMBDA r : r.src >= r.dst))
                ELSE Len(The(el).edgelist_df.rows)
       IN  [stop |-> 0, count |-> n, edge_count |-> Some(n)]
  ELSE IF adj /= None
  THEN [stop |-> 0, count |-> Len(The(adj).indices),
        edge_count |-> Some(Len(The(adj).indices))]
  ELSE IF tadj /= None
  THEN [stop |-> 0, count |-> Len(The(tadj).indices),
        edge_count |-> Some(Len(The(tadj).indices))]
  ELSE [stop |-> 849, edge_count |-> props.edge_count]

\* number_of_edges(directed_edges)
NumberOfEdges(directed_edges) ==
  \E run \in {NumberOfEdgesRun(directed_edges, edgelist, adjlist,
                               transposedadjlist, properties)} :
    /\ properties' = [properties EXCEPT !.edge_count = run.edge_count]
    /\ UNCHANGED <<edgelist, input_df, adjlist, transposedadjlist,
                   renumber_map, source_columns, destination_columns,
                   vertex_columns, weight_column, plc_graph>>
    /\ op' = <<"number_of_edges", directed_edges>>
    /\ err' = IF run.stop = 0 THEN None ELSE Raised("ValueError", run.stop)
    /\ ret' = IF run.stop = 0 THEN Some(run.count) ELSE None
    /\ wrapper_call' = None

\* a query: the object but properties is left alone, and the outcome is
\* recorded.  run is [stop, type, value]
Answer(name, run) ==
  /\ UNCHANGED <<edgelist, input_df, adjlist, transposedadjlist,
                 renumber_map, source_columns, destination_columns,
                 vertex_columns, weight_column, plc_graph>>
  /\ op' = name
  /\ err' = IF run.stop = 0 THEN None ELSE Raised(run.type, run.stop)
  /\ ret' = IF run.stop = 0 THEN Some(run.value) ELSE None
  /\ wrapper_call' = None

Fails(type, line) == [stop |-> line, type |-> type]
Returns(value) == [stop |-> 0, value |-> value]

\* has_self_loop() had it looked at the edge list on every call
HasSelfLoopRunUncached(el, props) ==
  IF el = None
  THEN [stop |-> 1258, type |-> "AttributeError", self_loop |-> None]
  ELSE LET any == \E i \in DOMAIN The(el).edgelist_df.rows :
                    The(el).edgelist_df.rows[i].src
                      = The(el).edgelist_df.rows[i].dst
       IN  [stop |-> 0, value |-> any, self_loop |-> Some(any)]

\* has_self_loop(): the outcome and properties.self_loop afterwards
HasSelfLoopRun(el, props) ==
  IF props.self_loop /= None
  THEN [stop |-> 0, value |-> The(props.self_loop), self_loop |-> props.self_loop]
  ELSE IF el = None
  THEN [stop |-> 1258, type |-> "AttributeError", self_loop |-> None]
  ELSE LET any == \E i \in DOMAIN The(el).edgelist_df.rows :
                    The(el).edgelist_df.rows[i].src
                      = The(el).edgelist_df.rows[i].dst
       IN  [stop |-> 0, value |-> any, self_loop |-> Some(any)]

\* has_self_loop() as it would be if it freed the edge list once the answer
\* is memoized
HasSelfLoopFreesEdgeList ==
  \E run \in {HasSelfLoopRun(edgelist, properties)} :
    /\ properties' = [properties EXCEPT !.self_loop = run.self_loop]
    /\ edgelist' = IF run.stop = 0 THEN None ELSE edgelist
    /\ UNCHANGED <<input_df, adjlist, transposedadjlist, renumber_map,
                   source_columns, destination_columns, vertex_columns,
                   weight_column, plc_graph>>
    /\ op' = <<"has_self_loop">>
    /\ err' = IF run.stop = 0 THEN None ELSE Raised(run.type, run.stop)
    /\ ret' = IF run.stop = 0 THEN Some(run.value) ELSE None
    /\ wrapper_call' = None

\* has_self_loop()
HasSelfLoop ==
  \E run \in {HasSelfLoopRun(edgelist, properties)} :
    /\ properties' = [properties EXCEPT !.self_loop = run.self_loop]
    /\ Answer(<<"has_self_loop">>, run)

\* has_node(n)
HasNode(n) ==
  \E nodes \in {NodesRun(edgelist, adjlist, properties, renumber_map)} :
    /\ properties' = [properties EXCEPT !.node_count = nodes.node_count]
    /\ Answer(<<"has_node", n>>,
              IF nodes.stop /= 0 THEN Fails("AttributeError", nodes.stop)
              ELSE IF nodes.value = None THEN Fails("AttributeError", 1231)
              ELSE Returns(n \in Range(The(nodes.value))))

\* an external identifier as the internal id the edge list uses: the line
\* of the raise, or the id
Internal(props, map, x, line) ==
  IF ~props.renumbered THEN Returns(x)
  ELSE IF map = None THEN Fails("AttributeError", line)
  ELSE IF ToInternal(The(map), x) = None
  THEN Fails("UnknownIdentifierError", line)
  ELSE Returns(The(ToInternal(The(map), x)))

\* has_edge(u, v)
HasEdgeRun(u, v, el, props, map) ==
  LET iu == Internal(props, map, u, 1240)
      iv == Internal(props, map, v, 1240)
  IN  IF iu.stop /= 0 THEN iu
      ELSE IF iv.stop /= 0 THEN iv
      ELSE IF el = None THEN Fails("AttributeError", 1247)
      ELSE Returns(\E i \in DOMAIN The(el).edgelist_df.rows :
                     Pair(The(el).edgelist_df.rows[i]) = <<iu.value, iv.value>>)

HasEdge(u, v) ==
  /\ UNCHANGED properties
  /\ Answer(<<"has_edge", u, v>>,
            HasEdgeRun(u, v, edgelist, properties, renumber_map))

\* neighbors(n) had it selected the rows by their destination
NeighborsRunByDestination(n, el, props, map) ==
  IF el = None THEN Fails("RuntimeError", 1297)
  ELSE LET node == Internal(props, map, n, 1299)
           found == SelectSeq(The(el).edgelist_df.rows,
                              LAMBDA r : r.dst = node.value)
       IN  IF node.stop /= 0 THEN node
           ELSE Returns([i \in 1..Len(found) |->
                           IF props.renumbered
                           THEN ToExternal(The(map), found[i].src)
                           ELSE found[i].src])

\* neighbors(n)
NeighborsRun(n, el, props, map) ==
  IF el = None THEN Fails("RuntimeError", 1297)
  ELSE LET node == Internal(props, map, n, 1299)
           found == SelectSeq(The(el).edgelist_df.rows,
                              LAMBDA r : r.src = node.value)
       IN  IF node.stop /= 0 THEN node
           ELSE Returns([i \in 1..Len(found) |->
                           IF props.renumbered
                           THEN ToExternal(The(map), found[i].dst)
                           ELSE found[i].dst])

Neighbors(n) ==
  /\ UNCHANGED properties
  /\ Answer(<<"neighbors", n>>,
            NeighborsRun(n, edgelist, properties, renumber_map))

\* graph_primtypes_wrapper._degree / _degrees: for every vertex 0..V-1 of
\* the view at hand its in- and out-degree
WrapperDegrees(el, adj, tadj) ==
  LET table(rows, V) ==
        [i \in 1..V |->
           [vertex |-> i - 1,
            in_degree |-> Len(SelectSeq(rows, LAMBDA r : r.dst = i - 1)),
            out_degree |-> Len(SelectSeq(rows, LAMBDA r : r.src = i - 1))]]
  IN  IF adj /= None
      THEN Returns(table(ExpandForward(The(adj)), Len(The(adj).offsets) - 1))
      ELSE IF tadj /= None
      THEN Returns(table(ExpandTransposed(The(tadj)),
                         Len(The(tadj).offsets) - 1))
      ELSE IF el /= None
      THEN Returns(table(The(el).edgelist_df.rows,
                         SpanOf(The(el).edgelist_df.rows)))
      ELSE Fails("ValueError", 1053)

\* _degree / degrees after the wrapper call: the rows of the isolated
\* vertices removed, the rows of vertex_subset kept, the vertices
\* unrenumbered.  vertex_subset is None or [series, ids]; the outcome carries
\* properties.node_count afterwards
DegreeRows(vertex_subset, el, adj, tadj, props, map) ==
  LET table == WrapperDegrees(el, adj, tadj)
      nodes == NodesRun(el, adj, props, map)
      known == IF props.renumbered
               THEN 0..(Len(The(map).df_internal_to_external) - 1)
               ELSE Range(The(nodes.value))
      translate == ~The(vertex_subset).series /\ props.renumbered
      ids == The(vertex_subset).ids
      unknown == \E i \in DOMAIN ids : ToInternal(The(map), ids[i]) = None
      subset == IF translate
                THEN {The(ToInternal(The(map), ids[i])) : i \in DOMAIN ids}
                ELSE Range(ids)
      kept == SelectSeq(table.value,
                        LAMBDA r : /\ r.vertex \in known
                                   /\ vertex_subset /= None
                                        => r.vertex \in subset)
      memo == IF props.renumbered THEN props.node_count ELSE nodes.node_count
  IN  IF table.stop /= 0
      THEN [stop |-> table.stop, type |-> table.type,
            node_count |-> props.node_count]
      ELSE IF props.renumbered /\ map = None
      THEN [stop |-> 1060, type |-> "AttributeError",
            node_count |-> props.node_count]
      ELSE IF ~props.renumbered /\ nodes.value = None
      THEN [stop |-> 1065, type |-> "AttributeError", node_count |-> memo]
      ELSE IF vertex_subset /= None /\ translate /\ unknown
      THEN [stop |-> 1071, type |-> "UnknownIdentifierError",
            node_count |-> memo]
      ELSE [stop |-> 0,
            value |-> [i \in 1..Len(kept) |->
                         [kept[i] EXCEPT
                            !.vertex = IF props.renumbered
                                       THEN ToExternal(The(map), @) ELSE @]],
            node_count |-> memo]

DegreeOf(r, direction) ==
  CASE direction = "IN" -> r.in_degree
    [] direction = "OUT" -> r.out_degree
    [] direction = "ALL" -> r.in_degree + r.out_degree

\* _degree(vertex_subset, direction): degree, in_degree and out_degree
Degree(vertex_subset, direction) ==
  \E run \in {DegreeRows(vertex_subset, edgelist, adjlist, transposedadjlist,
                         properties, renumber_map)} :
    /\ properties' = [properties EXCEPT !.node_count = run.node_count]
    /\ Answer(<<"_degree", vertex_subset, direction>>,
              IF run.stop /= 0 THEN run
              ELSE Returns([i \in 1..Len(run.value) |->
                              <<run.value[i].vertex,
                                DegreeOf(run.value[i], direction)>>]))

\* degrees(vertex_subset)
Degrees(vertex_subset) ==
  \E run \in {DegreeRows(vertex_subset, edgelist, adjlist, transposedadjlist,
                         properties, renumber_map)} :
    /\ properties' = [properties EXCEPT !.node_count = run.node_count]
    /\ Answer(<<"degrees", vertex_subset>>,
              IF run.stop /= 0 THEN run
              ELSE Returns([i \in 1..Len(run.value) |->
                              <<run.value[i].vertex, run.value[i].in_degree,
                                run.value[i].out_degree>>]))

\* the <<source, destination>> pairs of the graph the backend holds
PlcPairs(g) ==
  IF g.input_array_format = "COO"
  THEN [i \in 1..Len(g.src_or_offset_array) |->
          <<g.src_or_offset_array[i], g.dst_or_index_array[i]>>]
  ELSE [k \in 1..Len(g.dst_or_index_array) |->
          <<RowOfEntry(g.src_or_offset_array, k), g.dst_or_index_array[k]>>]

\* the vertices of the graph the backend holds
PlcVertices(g) ==
  IF g.input_array_format = "COO"
  THEN Range(g.src_or_offset_array) \cup Range(g.dst_or_index_array)
  ELSE 0..(Len(g.src_or_offset_array) - 2)

\* pylibcugraph.get_two_hop_neighbors: the pairs (u, w) with edges u->v and
\* v->w, u among the start vertices when given, in ascending order
PlcTwoHop(g, start) ==
  LET E == Range(PlcPairs(g))
      V == PlcVertices(g)
      span == Cardinality(V) + MaxId + 2
      found == {p \in V \X V :
                  /\ start /= None => p[1] \in Range(The(start))
                  /\ \E v \in V : <<p[1], v>> \in E /\ <<v, p[2]>> \in E}
      keys == SortedSeq({p[1] * span + p[2] : p \in found})
  IN  [i \in 1..Len(keys) |-> <<keys[i] \div span, keys[i] % span>>]

\* get_two_hop_neighbors had it handed the start vertices on as they came
GetTwoHopNeighborsRunUntranslated(start, el, props, map, plc) ==
  LET pairs == PlcTwoHop(The(plc), start)
  IN  IF plc = None THEN Fails("AttributeError", 752)
      ELSE IF props.renumbered = TRUE /\ map = None
      THEN Fails("AttributeError", 762)
      ELSE Returns([i \in 1..Len(pairs) |->
                      IF props.renumbered = TRUE
                      THEN <<ToExternal(The(map), pairs[i][1]),
                             ToExternal(The(map), pairs[i][2])>>
                      ELSE pairs[i]])

\* get_two_hop_neighbors(start_vertices), start_vertices None or a list
GetTwoHopNeighborsRun(start, el, props, map, plc) ==
  LET translate == props.renumbered = TRUE /\ start /= None
      unknown == \E i \in DOMAIN The(start) :
                   ToInternal(The(map), The(start)[i]) = None
      internal == IF translate
                  THEN Some([i \in DOMAIN The(start) |->
                               The(ToInternal(The(map), The(start)[i]))])
                  ELSE start
      pairs == PlcTwoHop(The(plc), internal)
  IN  IF translate /\ map = None THEN Fails("AttributeError", 746)
      ELSE IF translate /\ unknown THEN Fails("UnknownIdentifierError", 746)
      ELSE IF translate /\ el = None THEN Fails("AttributeError", 747)
      ELSE IF plc = None THEN Fails("AttributeError", 752)
      ELSE IF props.renumbered = TRUE /\ map = None
      THEN Fails("AttributeError", 762)
      ELSE Returns([i \in 1..Len(pairs) |->
                      IF props.renumbered = TRUE
                      THEN <<ToExternal(The(map), pairs[i][1]),
                             ToExternal(The(map), pairs[i][2])>>
                      ELSE pairs[i]])

GetTwoHopNeighbors(start) ==
  /\ UNCHANGED properties
  /\ Answer(<<"get_two_hop_neighbors", start>>,
            GetTwoHopNeighborsRun(start, edgelist, properties, renumber_map,
                                  plc_graph))

\* select_random_vertices(random_state, num_vertices): the backend's sample
\* is any num_vertices vertices (all of them when None), as a set
SelectRandomVertices(num_vertices) ==
  /\ UNCHANGED properties
  /\ IF plc_graph = None
     THEN Answer(<<"select_random_vertices", num_vertices>>,
                 Fails("AttributeError", 790))
     ELSE IF properties.renumbered = TRUE /\ renumber_map = None
     THEN Answer(<<"select_random_vertices", num_vertices>>,
                 Fails("AttributeError", 799))
     ELSE \E sample \in SUBSET PlcVertices(The(plc_graph)) :
            /\ IF num_vertices = None
               THEN sample = PlcVertices(The(plc_graph))
               ELSE Cardinality(sample)
                      = IF The(num_vertices)
                             <= Cardinality(PlcVertices(The(plc_graph)))
                        THEN The(num_vertices)
                        ELSE Cardinality(PlcVertices(The(plc_graph)))
            /\ Answer(<<"select_random_vertices", num_vertices>>,
                      Returns(IF properties.renumbered = TRUE
                              THEN {ToExternal(The(renumber_map), v) :
                                      v \in sample}
                              ELSE sample))

\* ----------------------------------------------------------------- inputs
\* the rows of an input frame: row i carries edge id i and edge type 1
InputRows ==
  UNION {{[i \in 1..n |-> Row(f[i][1], f[i][2], f[i][3], i, 1)] :
            f \in [1..n -> Ids \X Ids \X Weights]} : n \in 0..MaxEdges}

InputFrames ==
  {[dtype |-> d, columns |-> UserColumns, rows |-> r] :
     d \in {"int64", "str"}, r \in InputRows}

EdgeAttrArgs ==
  {None,
   Some([isstr |-> TRUE, names |-> <<"w">>]),
   Some([isstr |-> FALSE, names |-> <<"w">>]),
   Some([isstr |-> FALSE, names |-> <<"w", "eid", "etype">>]),
   Some([isstr |-> FALSE, names |-> <<"w", "eid">>]),
   Some([isstr |-> FALSE, names |-> <<"nosuch">>])}

\* the ways of asking for edge attributes: through edge_attr, or through
\* weight / edge_id / edge_type, or (rejected) through edge_attr and weight
AttrArgs ==
  {a \in EdgeAttrArgs \X {None, Some("w")} \X {None, Some("eid")}
           \X {None, Some("etype")} :
     a[1] = None \/ (a[3] = None /\ a[4] = None)}

\* construction from an edge list, as the first call on the object
BuildFromEdgelist ==
  /\ op = <<"__init__">>
  /\ \E frame \in InputFrames, a \in AttrArgs, renumber \in BOOLEAN :
       FromEdgelist(frame, "source", "destination", a[1], a[2], a[3], a[4],
                    renumber)

\* construction from an edge list that lacks the source column asked for
BuildWithoutColumn ==
  /\ op = <<"__init__">>
  /\ \E frame \in InputFrames :
       FromEdgelist(frame, "nosuch", "destination", None, None, None, None,
                    TRUE)

\* the adjacency lists over at most MaxId + 1 vertices, isolated ones included
AdjlistInputs ==
  {Compress(rows, V, weighted, FALSE) :
     <<rows, V, weighted>> \in
       {x \in InputRows \X (0..(MaxId + 1)) \X BOOLEAN : SpanOf(x[1]) <= x[2]}}

\* an undirected graph is given both directions of every edge
Symmetric(adj) ==
  LET pairs == [i \in 1..Len(ExpandForward(adj)) |->
                  <<ExpandForward(adj)[i].src, ExpandForward(adj)[i].dst,
                    ExpandForward(adj)[i].weights>>]
      swapped == [i \in 1..Len(pairs) |->
                    <<pairs[i][2], pairs[i][1], pairs[i][3]>>]
  IN  BagOfSeq(pairs) = BagOfSeq(swapped)

\* construction from an adjacency list, as the first call on the object
BuildFromAdjlist ==
  /\ op = <<"__init__">>
  /\ \E adj \in AdjlistInputs :
       /\ ~properties.directed => Symmetric(adj)
       /\ FromAdjlist(adj.offsets, adj.indices, adj.weights, TRUE)

NextBuild == BuildFromEdgelist \/ BuildWithoutColumn \/ BuildFromAdjlist

SpecBuild == Init /\ [][NextBuild]_vars

\* the identifiers a query is asked about
QueryIds == 0..MaxId

VertexSubsets ==
  {None} \cup {Some([series |-> b, ids |-> <<n>>]) :
                 b \in BOOLEAN, n \in QueryIds}

\* the input frames whose row i weighs i (at most MaxWeight)
PlainFrames ==
  {f \in InputFrames :
     \A i \in DOMAIN f.rows :
       f.rows[i].weights = IF i <= MaxWeight THEN i ELSE MaxWeight}

\* construction from an edge list without attributes or with a weight column
BuildPlain ==
  /\ op = <<"__init__">>
  /\ \E frame \in PlainFrames,
        edge_attr \in {None, Some([isstr |-> TRUE, names |-> <<"w">>])},
        renumber \in BOOLEAN :
       FromEdgelist(frame, "source", "destination", edge_attr, None, None,
                    None, renumber)

Views ==
  \/ ViewEdgeList
  \/ ViewAdjList
  \/ ViewTransposedAdjList
  \/ DeleteEdgeList
  \/ DeleteAdjList

Counts ==
  \/ NumberOfVertices
  \/ \E directed_edges \in BOOLEAN : NumberOfEdges(directed_edges)
  \/ Nodes
  \/ HasSelfLoop

Lookups ==
  \/ \E n \in QueryIds : HasNode(n)
  \/ \E u \in QueryIds, v \in QueryIds : HasEdge(u, v)
  \/ \E n \in QueryIds : Neighbors(n)
  \/ \E s \in VertexSubsets, d \in {"IN", "OUT", "ALL"} : Degree(s, d)
  \/ \E s \in VertexSubsets : Degrees(s)
  \/ \E start \in {None} \cup {Some(<<n>>) : n \in QueryIds} :
       GetTwoHopNeighbors(start)
  \/ \E k \in {None, Some(1)} : SelectRandomVertices(k)

\* the caller takes the outcome of the call: the object is ready for the next
Return ==
  /\ op \notin {<<"__init__">>, <<"idle">>}
  /\ UNCHANGED object
  /\ op' = <<"idle">>
  /\ err' = None
  /\ ret' = None
  /\ wrapper_call' = None

\* no call is under way
Ready == op \in {<<"__init__">>, <<"idle">>}

Next ==
  \/ BuildPlain
  \/ BuildFromAdjlist
  \/ Ready /\ Views
  \/ Ready /\ Counts
  \/ Ready /\ Lookups
  \/ Return

Spec == Init /\ [][Next]_vars
\* the frames and adjacency lists of at most one edge, for a second
\* construction call on the same object
ReplaceFrames ==
  {f \in PlainFrames : Len(f.rows) <= 1 /\ f.dtype = "int64"}

ReplaceAdjlists == {adj \in AdjlistInputs : Len(adj.indices) <= 1}

BuildSmall ==
  /\ op = <<"__init__">>
  /\ \E frame \in ReplaceFrames :
       FromEdgelist(frame, "source", "destination", None, None, None, None,
                    TRUE)

\* from_cudf_edgelist again, on an object that was constructed before
ReplaceEdgelist ==
  /\ op = <<"idle">>
  /\ \E frame \in ReplaceFrames :
       FromEdgelist(frame, "source", "destination", None, None, None, None,
                    TRUE)

\* from_cudf_adjlist, on an object that was constructed before
ReplaceAdjlist ==
  /\ op = <<"idle">>
  /\ \E adj \in ReplaceAdjlists :
       /\ ~properties.directed => Symmetric(adj)
       /\ FromAdjlist(adj.offsets, adj.indices, adj.weights, TRUE)

NextReplace ==
  \/ BuildSmall
  \/ ReplaceEdgelist
  \/ ReplaceAdjlist
  \/ Ready /\ ViewAdjList
  \/ Ready /\ DeleteEdgeList
  \/ Ready /\ NumberOfVertices
  \/ Return

SpecReplace == Init /\ [][NextReplace]_vars

\* ---------------------------------------------------------------- threads
\* Several threads call derive-on-first-use methods on one graph.  While they
\* run, op is <<"threads", calls>>: calls[t] is thread t's call, with its
\* method, the line it has reached (pc), the arrays it derived and the view
\* object it is constructing, whose attributes are set one at a time.
MaxThreads == 2

Threads == 1..MaxThreads

ViewMethods == {"view_adj_list", "view_transposed_adj_list", "view_edge_list"}

Unbuilt == [f \in {} |-> None]

Running == op[1] = "threads"

Call(t) == op[2][t]

\* the attribute a method caches its view in
Attribute(method) ==
  IF method = "view_adj_list" THEN adjlist
  ELSE IF method = "view_transposed_adj_list" THEN transposedadjlist
  ELSE edgelist

\* thread t moves on: its call becomes c, and nothing else is touched but
\* what the step names
Step(t, c) ==
  /\ op' = <<"threads", [op[2] EXCEPT ![t] = c]>>
  /\ UNCHANGED <<err, ret, wrapper_call>>

\* the threads start their calls on a graph no call is under way on
Spawn ==
  /\ op = <<"idle">>
  /\ \E methods \in [Threads -> ViewMethods] :
       op' = <<"threads", [t \in Threads |->
                             [method |-> methods[t], pc |-> "test",
                              arrays |-> None, obj |-> Unbuilt]]>>
  /\ UNCHANGED object
  /\ UNCHANGED <<err, ret, wrapper_call>>

\* `if self.adjlist is None:` (lines 576, 619, 417)
TestView(t) ==
  /\ Running
  /\ Call(t).pc = "test"
  /\ Step(t, [Call(t) EXCEPT
                !.pc = IF Attribute(Call(t).method) = None
                       THEN "derive" ELSE "return"])
  /\ UNCHANGED object

\* the arrays of the view, taken from the other adjacency view or derived
\* by the wrapper (lines 577-585, 620-633, 418): [stop, arrays]
DeriveRun(method, el, adj, tadj, props) ==
  IF method = "view_adj_list"
  THEN IF ReuseTransposed(tadj, props)
       THEN [stop |-> 0, arrays |-> The(tadj)]
       ELSE LET w == WrapperViewAdjList(el, tadj)
            IN  IF w.stop = 0 THEN [stop |-> 0, arrays |-> w.adj]
                ELSE [stop |-> w.stop, arrays |-> None]
  ELSE IF method = "view_transposed_adj_list"
  THEN IF ReuseForward(adj, props)
       THEN [stop |-> 0, arrays |-> The(adj)]
       ELSE LET w == WrapperViewTransposedAdjList(el, adj)
            IN  IF w.stop = 0 THEN [stop |-> 0, arrays |-> w.adj]
                ELSE [stop |-> w.stop, arrays |-> None]
  ELSE LET w == WrapperViewEdgeList(adj, tadj)
       IN  IF w.stop = 0
           THEN [stop |-> 0,
                 arrays |-> EdgeList(w.rows, IF w.weighted
                                             THEN {edgeWeightCol} ELSE {})]
           ELSE [stop |-> w.stop, arrays |-> None]

DeriveView(t) ==
  /\ Running
  /\ Call(t).pc = "derive"
  /\ \E run \in {DeriveRun(Call(t).method, edgelist, adjlist,
                           transposedadjlist, properties)} :
       Step(t, [Call(t) EXCEPT
                  !.pc = IF run.stop /= 0 THEN "raised"
                         ELSE IF Call(t).method = "view_edge_list"
                         THEN "assign" ELSE "offsets",
                  !.arrays = IF run.stop = 0 THEN Some(run.arrays) ELSE None,
                  !.obj = IF run.stop = 0
                            /\ Call(t).method = "view_edge_list"
                          THEN run.arrays ELSE Unbuilt])
  /\ UNCHANGED object

\* the same step on an object that was stored in the graph's attribute as
\* soon as it was allocated
SetOffsetsInPlace(t) ==
  /\ Running
  /\ Call(t).pc = "offsets"
  /\ Step(t, [Call(t) EXCEPT
                !.pc = "indices",
                !.obj = "offsets" :> The(Call(t).arrays).offsets])
  /\ adjlist' = IF Call(t).method = "view_adj_list"
                THEN Some("offsets" :> The(Call(t).arrays).offsets)
                ELSE adjlist
  /\ transposedadjlist' =
       IF Call(t).method = "view_transposed_adj_list"
       THEN Some("offsets" :> The(Call(t).arrays).offsets)
       ELSE transposedadjlist
  /\ UNCHANGED <<edgelist, input_df, renumber_map, properties,
                 source_columns, destination_columns, vertex_columns,
                 weight_column, plc_graph>>

\* AdjList.__init__: self.offsets = offsets (line 76)
SetOffsets(t) ==
  /\ Running
  /\ Call(t).pc = "offsets"
  /\ Step(t, [Call(t) EXCEPT
                !.pc = "indices",
                !.obj = "offsets" :> The(Call(t).arrays).offsets])
  /\ UNCHANGED object

\* AdjList.__init__: self.indices = indices (line 77)
SetIndices(t) ==
  /\ Running
  /\ Call(t).pc = "indices"
  /\ Step(t, [Call(t) EXCEPT
                !.pc = "weights",
                !.obj = @ @@ ("indices" :> The(Call(t).arrays).indices)])
  /\ UNCHANGED object

\* AdjList.__init__: self.weights = value (line 78)
SetWeights(t) ==
  /\ Running
  /\ Call(t).pc = "weights"
  /\ Step(t, [Call(t) EXCEPT
                !.pc = "assign",
                !.obj = @ @@ ("weights" :> The(Call(t).arrays).weights)])
  /\ UNCHANGED object

\* self.adjlist = ... (line 586), self.transposedadjlist = ... (line 634),
\* self.edgelist = ... (line 419)
AssignView(t) ==
  /\ Running
  /\ Call(t).pc = "assign"
  /\ Step(t, [Call(t) EXCEPT !.pc = "return"])
  /\ adjlist' = IF Call(t).method = "view_adj_list"
                THEN Some(Call(t).obj) ELSE adjlist
  /\ transposedadjlist' = IF Call(t).method = "view_transposed_adj_list"
                          THEN Some(Call(t).obj) ELSE transposedadjlist
  /\ edgelist' = IF Call(t).method = "view_edge_list"
                 THEN Some(Call(t).obj) ELSE edgelist
  /\ UNCHANGED <<input_df, renumber_map, properties, source_columns,
                 destination_columns, vertex_columns, weight_column,
                 plc_graph>>

\* the rest of the method: the adjacency methods return the cached arrays
\* (lines 590, 637-641); view_edge_list builds the frame it returns and
\* memoizes its length (lines 421-520)
ReturnView(t) ==
  /\ Running
  /\ Call(t).pc = "return"
  /\ Step(t, [Call(t) EXCEPT !.pc = "done"])
  /\ properties' =
       IF Call(t).method = "view_edge_list"
       THEN [properties EXCEPT
               !.edge_count =
                 Some(Len(ViewEdgeListRows(The(edgelist), input_df,
                                           properties, renumber_map)))]
       ELSE properties
  /\ UNCHANGED <<edgelist, input_df, adjlist, transposedadjlist,
                 renumber_map, source_columns, destination_columns,
                 vertex_columns, weight_column, plc_graph>>

NextThreads ==
  \/ BuildSmall
  \/ Ready /\ ViewAdjList
  \/ Ready /\ DeleteEdgeList
  \/ ~Running /\ Return
  \/ Spawn
  \/ \E t \in Threads : TestView(t)
  \/ \E t \in Threads : DeriveView(t)
  \/ \E t \in Threads : SetOffsets(t)
  \/ \E t \in Threads : SetIndices(t)
  \/ \E t \in Threads : SetWeights(t)
  \/ \E t \in Threads : AssignView(t)
  \/ \E t \in Threads : ReturnView(t)

SpecThreads == Init /\ [][NextThreads]_vars

\* ------------------------------------------------- the triangle 0 -> 1 -> 2
\* the input source = [0, 1, 2], destination = [1, 2, 0]
TriangleRows == <<Row(0, 1, 0, 1, 1), Row(1, 2, 0, 2, 1), Row(2, 0, 0, 3, 1)>>

\* that input cut after any number of its rows, in either dtype
TriangleFrames ==
  {[dtype |-> d, columns |-> UserColumns, rows |-> SubSeq(TriangleRows, 1, n)] :
     d \in {"int64", "str"}, n \in 0..Len(TriangleRows)}

BuildTriangle ==
  /\ op = <<"__init__">>
  /\ \E frame \in TriangleFrames, renumber \in BOOLEAN :
       FromEdgelist(frame, "source", "destination", None, None, None, None,
                    renumber)

NextTriangle ==
  \/ BuildTriangle
  \/ Ready /\ ViewAdjList
  \/ Ready /\ DeleteEdgeList
  \/ Ready /\ NumberOfVertices
  \/ Ready /\ \E directed_edges \in BOOLEAN : NumberOfEdges(directed_edges)
  \/ Ready /\ \E n \in Endpoints(TriangleRows) : Neighbors(n)
  \/ Return

SpecTriangle == Init /\ [][NextTriangle]_vars

\* ---------------------------------------------------------- derived graphs
\* a graph implementation as to_directed / to_undirected are handed it: just
\* constructed, with the properties of the graph it belongs to
FreshImpl(directed, multi_edge) ==
  [edgelist |-> None, adjlist |-> None, transposedadjlist |-> None,
   renumber_map |-> None, properties |-> Properties(directed, multi_edge),
   plc_graph |-> None]

\* the weight column of the graph's own edge list, or None
OwnWeights(el) ==
  IF edgeWeightCol \in The(el).edgelist_df.cols
  THEN Some(Column(The(el).edgelist_df.rows, edgeWeightCol)) ELSE None

\* X._make_plc_graph(value_col, store_transposed) on the implementation X:
\* X afterwards, the arrays handed to the backend and the outcome of the build
MakePlcGraphOn(X, value_col) ==
  LET plc == MakePlcGraph(X.edgelist, X.adjlist, value_col, None, None, TRUE,
                          X.properties)
  IN  [stop |-> plc.stop, type |-> plc.type, handed |-> Some(plc.graph),
       X |-> [X EXCEPT !.edgelist = plc.el, !.adjlist = plc.adj,
                       !.plc_graph = IF plc.stop = 0 THEN Some(plc.graph)
                                     ELSE @]]

\* to_directed(DiG): the line of the raise, DiG afterwards
ToDirectedRun(DiG, el, adj, tadj, map, props) ==
  LET shared == [DiG EXCEPT !.properties.renumbered = props.renumbered,
                            !.renumber_map = map, !.edgelist = el,
                            !.adjlist = adj, !.transposedadjlist = tadj]
      made == MakePlcGraphOn(shared, OwnWeights(el))
  IN  IF el = None
      THEN [stop |-> 1183, type |-> "AttributeError", handed |-> None,
            X |-> shared]
      ELSE made

\* to_undirected(G): the line of the raise, G afterwards
ToUndirectedRun(G, el, adj, tadj, map, props) ==
  LET renumbered == [G EXCEPT !.properties.renumbered = props.renumbered,
                              !.renumber_map = map]
      shared == [renumbered EXCEPT !.edgelist = el, !.adjlist = adj,
                                   !.transposedadjlist = tadj]
      cols == IF The(el).weights THEN {edgeWeightCol} ELSE {}
      sym == Symmetrize(Frame(cols, The(el).edgelist_df.rows).rows, cols,
                        FALSE, TRUE)
      symmetrized == [renumbered EXCEPT !.edgelist = Some(EdgeList(sym, cols))]
  IN  IF ~props.directed /\ el = None
      THEN [stop |-> 1219, type |-> "AttributeError", handed |-> None,
            X |-> shared]
      ELSE IF el = None
      THEN [stop |-> 1205, type |-> "AttributeError", handed |-> None,
            X |-> renumbered]
      ELSE MakePlcGraphOn(IF ~props.directed THEN shared ELSE symmetrized,
                          OwnWeights(el))

\* a derivation has run: the derived implementation is what the caller holds
\* afterwards (graph), with the arrays its build handed to the backend, if
\* the build was reached (handed); an edge list or adjacency list the two graphs share is one
\* object, so what the build did to it shows in both
Derived(name, run, sharing) ==
  /\ edgelist' = IF sharing /\ edgelist /= None THEN run.X.edgelist
                 ELSE edgelist
  /\ adjlist' = IF sharing /\ edgelist /= None THEN run.X.adjlist ELSE adjlist
  /\ UNCHANGED <<input_df, transposedadjlist, renumber_map, properties,
                 source_columns, destination_columns, vertex_columns,
                 weight_column, plc_graph>>
  /\ op' = name
  /\ err' = IF run.stop = 0 THEN None ELSE Raised(run.type, run.stop)
  /\ ret' = Some([graph |-> run.X, handed |-> run.handed])
  /\ wrapper_call' = None

\* to_directed(DiG) for a fresh directed DiG
ToDirected ==
  \E multi_edge \in BOOLEAN :
    Derived(<<"to_directed">>,
            ToDirectedRun(FreshImpl(TRUE, multi_edge), edgelist, adjlist,
                          transposedadjlist, renumber_map, properties),
            TRUE)

\* to_undirected(G) for a fresh undirected G
ToUndirected ==
  \E multi_edge \in BOOLEAN :
    Derived(<<"to_undirected">>,
            ToUndirectedRun(FreshImpl(FALSE, multi_edge), edgelist, adjlist,
                            transposedadjlist, renumber_map, properties),
            ~properties.directed)

\* _make_plc_graph(value_col) called on the graph itself, with its own
\* weight column or none
RemakePlcGraph ==
  /\ edgelist /= None
  /\ \E value_col \in {None, OwnWeights(edgelist)} :
       LET plc == MakePlcGraph(edgelist, adjlist, value_col, None, None, TRUE,
                               properties)
       IN  /\ edgelist' = plc.el
           /\ adjlist' = plc.adj
           /\ plc_graph' = IF plc.stop = 0 THEN Some(plc.graph) ELSE plc_graph
           /\ UNCHANGED <<input_df, transposedadjlist, renumber_map,
                          properties, source_columns, destination_columns,
                          vertex_columns, weight_column>>
           /\ op' = <<"_make_plc_graph">>
           /\ err' = IF plc.stop = 0 THEN None
                     ELSE Raised(plc.type, plc.stop)
           /\ ret' = None
           /\ wrapper_call' = None

NextDerive ==
  \/ BuildPlain
  \/ BuildFromAdjlist
  \/ Ready /\ ToDirected
  \/ Ready /\ ToUndirected
  \/ Ready /\ RemakePlcGraph
  \/ Return

SpecDerive == Init /\ [][NextDerive]_vars

\* ------------------------------------------------- link_prediction/sorensen
\* the external identifiers that are an endpoint of an edge of the graph
ExternalVertices ==
  IF properties.renumbered /\ renumber_map /= None
  THEN Range(The(renumber_map).df_internal_to_external)
  ELSE Endpoints(The(edgelist).edgelist_df.rows)

\* the neighbours of an internal vertex in the stored edge list
NeighborsIn(rows, u) == {rows[i].dst : i \in {k \in DOMAIN rows : rows[k].src = u}}

\* jaccard_wrapper.jaccard(graph, None, vertex_pair): one row per pair given,
\* or per stored edge when none is given, with the coefficient
\* |N(u) & N(v)| / |N(u) | N(v)| as the fraction <<numerator, denominator>>
Jaccard(rows, vertex_pair) ==
  LET pairs == IF vertex_pair = None
               THEN [i \in DOMAIN rows |-> Pair(rows[i])]
               ELSE The(vertex_pair)
  IN  [i \in DOMAIN pairs |->
         [first |-> pairs[i][1], second |-> pairs[i][2],
          jaccard_coeff |->
            <<Cardinality(NeighborsIn(rows, pairs[i][1])
                            \cap NeighborsIn(rows, pairs[i][2])),
              Cardinality(NeighborsIn(rows, pairs[i][1])
                            \cup NeighborsIn(rows, pairs[i][2]))>>]]

\* (2 * j) / (1 + j) for the fraction j
SorensenOf(j) == <<2 * j[1], j[2] + j[1]>>

\* sorensen(input_graph, vertex_pair) with do_expensive_check left on:
\* vertex_pair is None or a frame of external pairs
SorensenRun(vertex_pair, el, props, map) ==
  LET rows == The(el).edgelist_df.rows
      internal == IF vertex_pair = None \/ ~props.renumbered THEN vertex_pair
                  ELSE Some([i \in DOMAIN The(vertex_pair) |->
                               <<The(ToInternal(The(map), The(vertex_pair)[i][1])),
                                 The(ToInternal(The(map), The(vertex_pair)[i][2]))>>])
      df == Jaccard(rows, internal)
  IN  IF ~props.renumbered /\ el = None THEN Fails("AttributeError", 89)
      ELSE IF ~props.renumbered /\ rows = <<>> THEN Fails("TypeError", 91)
      ELSE IF ~props.renumbered
              /\ Endpoints(rows) /= 0..Max(SpanOf(rows) - 1, 0)
      THEN Fails("ValueError", 101)
      ELSE IF props.multi_edge THEN Fails("TypeError", 104)
      ELSE IF el = None THEN Fails("AttributeError", 111)
      ELSE Returns([i \in DOMAIN df |->
                      [first |-> IF props.renumbered
                                 THEN ToExternal(The(map), df[i].first)
                                 ELSE df[i].first,
                       second |-> IF props.renumbered
                                  THEN ToExternal(The(map), df[i].second)
                                  ELSE df[i].second,
                       sorensen_coeff |-> SorensenOf(df[i].jaccard_coeff)]])

\* df_edge_score_to_dictionary: the scores keyed by (first, second)
EdgeScoreToDictionary(df) ==
  [p \in {<<df[i].first, df[i].second>> : i \in DOMAIN df} |->
     df[CHOOSE i \in DOMAIN df : <<df[i].first, df[i].second>> = p].sorensen_coeff]

\* sorensen_coefficient(G, ebunch): isNx tells whether G came as a NetworkX
\* graph, ebunch is None or a sequence of external vertex pairs
SorensenCoefficientRun(isNx, ebunch, el, props, map) ==
  LET vertex_pair == IF isNx = TRUE /\ ebunch /= None THEN ebunch ELSE None
      df == SorensenRun(vertex_pair, el, props, map)
  IN  IF df.stop /= 0 THEN df
      ELSE IF isNx = TRUE THEN Returns(EdgeScoreToDictionary(df.value))
      ELSE df

\* the vertex pairs a caller may ask about: pairs of vertices of the graph
Ebunches ==
  {None} \cup (IF edgelist = None THEN {}
               ELSE {Some(<<<<u, v>>>>) :
                       u \in ExternalVertices, v \in ExternalVertices})

SorensenCoefficient ==
  /\ UNCHANGED properties
  /\ \E isNx \in BOOLEAN, ebunch \in Ebunches :
       Answer(<<"sorensen_coefficient", isNx, ebunch>>,
              SorensenCoefficientRun(isNx, ebunch, edgelist, properties,
                                     renumber_map))

NextSorensen ==
  \/ BuildPlain
  \/ Ready /\ SorensenCoefficient
  \/ Return

SpecSorensen == Init /\ [][NextSorensen]_vars

\* ------------------------------------------------- louvain_communities
\* the graphs handed to louvain_communities: N nodes with the identifiers
\* 0..N-1, and the stored entries, both directions of an undirected edge
NxGraphs ==
  UNION {{[directed |-> d, N |-> n,
           edges |-> e \cup {<<p[2], p[1]>> : p \in e}] :
            d \in BOOLEAN,
            e \in SUBSET {p \in (0..(n - 1)) \X (0..(n - 1)) : p[1] <= p[2]}} :
         n \in 0..(MaxId + 1)}

\* the node key of a node identifier
NodeKey(i) == <<"node", i>>

\* what plc.louvain may return for G: the vertices and a cluster for each
PlcLouvain(G) ==
  {[vertices |-> [i \in 1..G.N |-> i - 1], clusters |-> c] :
     c \in [1..G.N -> 0..(G.N - 1)]}

\* _groupby(clusters, vertices): the vertices of each cluster, by cluster
Groupby(clusters, vertices) ==
  LET ids == SelectSeq([i \in 1..Len(clusters) |-> i - 1],
                       LAMBDA c : \E i \in DOMAIN clusters : clusters[i] = c)
  IN  [k \in DOMAIN ids |->
         {vertices[i] : i \in {j \in DOMAIN clusters : clusters[j] = ids[k]}}]

\* louvain_communities had it handed every graph to the backend
LouvainCommunitiesRunEveryGraph(G, out) ==
  IF G.directed
  THEN [stop |-> 23, type |-> "NetworkXNotImplemented", called |-> FALSE]
  ELSE LET groups == Groupby(out.clusters, out.vertices)
       IN  [stop |-> 0, called |-> TRUE,
            value |-> [k \in DOMAIN groups |->
                         {NodeKey(i) : i \in groups[k]}]]

\* louvain_communities(G): the communities, and whether plc.louvain was
\* called; out is what the backend returns when it is
LouvainCommunitiesRun(G, out) ==
  IF G.directed
  THEN [stop |-> 23, type |-> "NetworkXNotImplemented", called |-> FALSE]
  ELSE IF Cardinality(G.edges) = 0
  THEN [stop |-> 0, called |-> FALSE,
        value |-> [k \in 1..G.N |-> {NodeKey(k - 1)}]]
  ELSE LET groups == Groupby(out.clusters, out.vertices)
       IN  [stop |-> 0, called |-> TRUE,
            value |-> [k \in DOMAIN groups |->
                         {NodeKey(i) : i \in groups[k]}]]

\* louvain_communities._can_run
CanRun(G) == ~G.directed

LouvainCommunities ==
  /\ UNCHANGED properties
  /\ \E G \in NxGraphs :
     \E out \in PlcLouvain(G) :
     \E run \in {LouvainCommunitiesRun(G, out)} :
       /\ UNCHANGED <<edgelist, input_df, adjlist, transposedadjlist,
                      renumber_map, source_columns, destination_columns,
                      vertex_columns, weight_column, plc_graph>>
       /\ op' = <<"louvain_communities", G>>
       /\ err' = IF run.stop = 0 THEN None ELSE Raised(run.type, run.stop)
       /\ ret' = IF run.stop = 0 THEN Some(run.value) ELSE None
       /\ wrapper_call' = IF run.called THEN Some("louvain") ELSE None

CanRunAsked ==
  /\ UNCHANGED properties
  /\ \E G \in NxGraphs : Answer(<<"_can_run", G>>, Returns(CanRun(G)))

NextLouvain ==
  \/ Ready /\ LouvainCommunities
  \/ Ready /\ CanRunAsked
  \/ Return

SpecLouvain == Init /\ [][NextLouvain]_vars

\* ----------------------------------------------------------------- claims
\* a construction from an edge list has just succeeded
Built == op = <<"from_edgelist">> /\ err = None

IsLoop(r) == r.src = r.dst

\* C1: after a successful construction of an undirected graph from an edge
\* list, the stored edge list is closed under swapping source and
\* destination (every stored entry, with its attributes, occurs as often
\* reversed), and a self-loop is never doubled: the stored self-loops are
\* present exactly when the input has some, are no more than the input's, and
\* carry the input's total self-loop weight.
C1_SymmetricClosure ==
  (Built /\ ~properties.directed) =>
    LET frame == The(edgelist).edgelist_df
        rows == frame.rows
        given == The(input_df).rows
        loops == SelectSeq(rows, IsLoop)
        givenloops == SelectSeq(given, IsLoop)
    IN  /\ BagOfSeq(rows) = BagOfSeq([i \in 1..Len(rows) |-> Swap(rows[i])])
        /\ Len(loops) <= Len(givenloops)
        /\ (Len(givenloops) > 0) = (Len(loops) > 0)
        /\ (properties.multi_edge => Len(loops) = Len(givenloops))
        /\ (edgeWeightCol \in frame.cols /\ edgeIdCol \notin frame.cols
              /\ edgeTypeCol \notin frame.cols)
             => SeqSum(Column(loops, edgeWeightCol))
                  = SeqSum(Column(givenloops, edgeWeightCol))

\* an undirected weighted graph built from a self-loop and another edge
C1_Witness ==
  /\ Built
  /\ ~properties.directed
  /\ edgeWeightCol \in The(edgelist).edgelist_df.cols
  /\ \E i, j \in 1..Len(The(edgelist).edgelist_df.rows) :
       /\ IsLoop(The(edgelist).edgelist_df.rows[i])
       /\ ~IsLoop(The(edgelist).edgelist_df.rows[j])

\* C2: an undirected graph never carries edge ids or edge types: neither its
\* stored edge list nor the graph built from it has such a column.
C2_NoUndirectedEdgeIds ==
  (plc_graph /= None /\ edgelist /= None /\ ~properties.directed) =>
    /\ edgeIdCol \notin The(edgelist).edgelist_df.cols
    /\ edgeTypeCol \notin The(edgelist).edgelist_df.cols
    /\ The(plc_graph).edge_id_array = None
    /\ The(plc_graph).edge_type_array = None

\* the graph was constructed and one of its representations is populated
Populated ==
  /\ plc_graph /= None
  /\ (edgelist /= None \/ adjlist /= None \/ transposedadjlist /= None)

\* the edges of an undirected graph whose stored entries are pairs: a
\* self-loop once, and one for the two directions of any other edge
UndirectedEdgeCount(pairs) ==
  Len(SelectSeq(pairs, LAMBDA e : e[1] >= e[2]))

\* C3: on an undirected graph with a populated representation,
\* number_of_edges() with directed_edges left at False returns the
\* undirected edge count: half of the symmetric stored entries, a self-loop
\* counted once.
C3_UndirectedCount ==
  (Populated /\ ~properties.directed /\ err = None
     /\ op = <<"number_of_edges", FALSE>>)
    => The(ret) = UndirectedEdgeCount(PlcPairs(The(plc_graph)))

\* C4: on a graph with a populated representation,
\* number_of_edges(directed_edges=True) returns the raw number of stored
\* directed entries, whatever was memoized before and whether or not the
\* edge list is the populated view.
C4_RawCount ==
  (Populated /\ op = <<"number_of_edges", TRUE>>)
    => /\ err = None
       /\ The(ret) = Len(PlcPairs(The(plc_graph)))

\* C5: the edge list and the adjacency list of a graph, populated together,
\* imply the same number of vertices.
C5_ViewsAgree ==
  (plc_graph /= None /\ edgelist /= None /\ adjlist /= None)
    => LET nodes == NodesRun(edgelist, None, properties, renumber_map)
       IN  nodes.stop = 0
             /\ Len(The(nodes.value)) = Len(The(adjlist).offsets) - 1

NoRepresentation ==
  edgelist = None /\ adjlist = None /\ transposedadjlist = None

\* C6 as stated: number_of_vertices() fails with the empty-graph error
\* exactly when none of the three representations is populated.
C6_FailsWheneverEmpty ==
  op = <<"number_of_vertices">>
    => (err = Raised("RuntimeError", 816)) = NoRepresentation

\* C6 amended: number_of_vertices() fails with the empty-graph error exactly
\* when no vertex count is memoized and none of the three representations is
\* populated; a memoized count is returned even from an emptied graph.
C6_FailsWhenEmptyAndUnknown ==
  [][op' = <<"number_of_vertices">>
       => /\ (err' = Raised("RuntimeError", 816))
               = (properties.node_count = None /\ NoRepresentation)
          /\ (properties.node_count /= None
                => err' = None /\ ret' = properties.node_count)]_vars

\* a constructed graph, emptied before any count was memoized, is asked
C6_Witness ==
  /\ op = <<"number_of_vertices">>
  /\ err = Raised("RuntimeError", 816)
  /\ plc_graph /= None
  /\ NoRepresentation

StructuralQueries ==
  {"number_of_vertices", "number_of_edges", "_degree", "degrees", "neighbors",
   "nodes", "has_node", "has_edge", "has_self_loop", "get_two_hop_neighbors",
   "select_random_vertices"}

Replacers ==
  {"delete_edge_list", "delete_adj_list", "from_edgelist", "from_adjlist"}

\* C8: a structural query leaves every populated view (edgelist, adjlist,
\* transposedadjlist) as it found it, and a populated view changes only
\* through delete_edge_list, delete_adj_list or a construction call.
C8_QueriesKeepViews ==
  [][/\ op'[1] \in StructuralQueries
          => /\ (edgelist /= None => edgelist' = edgelist)
             /\ (adjlist /= None => adjlist' = adjlist)
             /\ (transposedadjlist /= None
                   => transposedadjlist' = transposedadjlist)
     /\ ((edgelist /= None /\ edgelist' /= edgelist)
           \/ (adjlist /= None /\ adjlist' /= adjlist)
           \/ (transposedadjlist /= None
                 /\ transposedadjlist' /= transposedadjlist))
          => op'[1] \in Replacers]_vars

\* a query has answered on a graph with all three views populated
C8_Witness ==
  /\ op = <<"has_self_loop">>
  /\ err = None
  /\ edgelist /= None
  /\ adjlist /= None
  /\ transposedadjlist /= None

\* C9: view_edge_list() on a graph without a coordinate view but with an
\* adjacency view derives the coordinate view and stores it, leaving adjlist
\* and transposedadjlist as they were, and with the coordinate view stored it
\* derives nothing; view_adj_list() and view_transposed_adj_list() store
\* their result on first use, derive nothing once it is stored, and leave
\* the other two views as they were.
C9_CacheOnFirstUse ==
  [][/\ op' = <<"view_edge_list">>
          => /\ adjlist' = adjlist
             /\ transposedadjlist' = transposedadjlist
             /\ (edgelist = None /\ (adjlist /= None
                                       \/ transposedadjlist /= None))
                  => (edgelist' /= None
                        /\ wrapper_call' = Some("view_edge_list"))
             /\ edgelist /= None
                  => (edgelist' = edgelist /\ wrapper_call' = None)
     /\ op' = <<"view_adj_list">>
          => /\ edgelist' = edgelist
             /\ transposedadjlist' = transposedadjlist
             /\ (adjlist = None /\ err' = None)
                  => (adjlist' /= None /\ ret' = adjlist')
             /\ adjlist /= None
                  => (adjlist' = adjlist /\ wrapper_call' = None)
     /\ op' = <<"view_transposed_adj_list">>
          => /\ edgelist' = edgelist
             /\ adjlist' = adjlist
             /\ (transposedadjlist = None /\ err' = None)
                  => (transposedadjlist' /= None
                        /\ ret' = transposedadjlist')
             /\ transposedadjlist /= None
                  => (transposedadjlist' = transposedadjlist
                        /\ wrapper_call' = None)]_vars

\* the coordinate view was derived anew from adjacency views that were
\* both populated, one of them taken from the other
C9_Witness ==
  /\ op = <<"view_edge_list">>
  /\ wrapper_call = Some("view_edge_list")
  /\ edgelist /= None
  /\ adjlist /= None
  /\ transposedadjlist = adjlist
  /\ Len(The(adjlist).indices) >= 2

EdgeBag(rows) == BagOfSeq([i \in 1..Len(rows) |-> Pair(rows[i])])

C7_ReplacementClears ==
  [][(plc_graph /= None /\ err' = None
        /\ op'[1] \in {"from_edgelist", "from_adjlist"})
       => /\ properties'.node_count = None
          /\ properties'.edge_count = None
          /\ properties'.self_loop = None
          /\ transposedadjlist' = None
          /\ op'[1] = "from_edgelist" => adjlist' = None
          /\ op'[1] = "from_adjlist" => edgelist' = None]_vars

\* thread t has found the view absent and has not assigned it yet
Deriving(t) ==
  Running /\ Call(t).pc \in {"derive", "offsets", "indices", "weights",
                             "assign"}

\* C11: of the threads that call the same derive-on-first-use method, at
\* most one at a time is between finding the view absent and assigning it.
C11_OneDerivationAtATime ==
  \A t, u \in Threads :
    (t /= u /\ Deriving(t) /\ Deriving(u))
      => Call(t).method /= Call(u).method

ViewFields == {"offsets", "indices", "weights"}

\* C12: at every step of every interleaving, adjlist and transposedadjlist
\* are each either absent or an object with offsets, indices and weights
\* all set.
C12_NeverPartial ==
  /\ adjlist /= None => DOMAIN The(adjlist) = ViewFields
  /\ transposedadjlist /= None => DOMAIN The(transposedadjlist) = ViewFields

\* one thread has published the adjacency view while another is still
\* constructing its own, with only some attributes set
C12_Witness ==
  /\ Running
  /\ adjlist /= None
  /\ \E t \in Threads :
       /\ Call(t).method = "view_adj_list"
       /\ Call(t).pc = "weights"
       /\ DOMAIN Call(t).obj = {"offsets", "indices"}

\* C13: a from_edgelist call that raises within its checks (up to line 255)
\* leaves the graph object exactly as it was before the call.
C13_FailureLeavesObject ==
  [][(op' = <<"from_edgelist">> /\ err' /= None /\ The(err').line <= 255)
       => UNCHANGED object]_vars

\* C14: on an undirected graph with a populated representation, the
\* out-degrees that degrees() returns sum to the same as the in-degrees, and
\* both sums are twice what number_of_edges() returns.
C14_DegreeConservation ==
  (Populated /\ ~properties.directed) =>
    LET degrees == DegreeRows(None, edgelist, adjlist, transposedadjlist,
                              properties, renumber_map)
        edges == NumberOfEdgesRun(FALSE, edgelist, adjlist,
                                  transposedadjlist, properties)
        out == SeqSum([i \in 1..Len(degrees.value) |->
                         degrees.value[i].out_degree])
        in == SeqSum([i \in 1..Len(degrees.value) |->
                        degrees.value[i].in_degree])
    IN  (degrees.stop = 0 /\ edges.stop = 0)
          => (out = in /\ out = 2 * edges.count)

\* C15: on a renumbered graph, degree / in_degree / out_degree / degrees
\* given a vertex_subset, a list and a cudf.Series alike, answers with
\* exactly the rows of the requested external vertices that are in the graph.
C15_SubsetTranslated ==
  (op[1] \in {"_degree", "degrees"} /\ err = None /\ properties.renumbered
     /\ renumber_map /= None /\ op[2] /= None)
    => {The(ret)[i][1] : i \in 1..Len(The(ret))}
         = Range(The(op[2]).ids)
             \cap Range(The(renumber_map).df_internal_to_external)

\* the external identifiers the call just made asked about
Queried ==
  CASE op[1] = "neighbors" -> {op[2]}
    [] op[1] \in {"_degree", "degrees"} /\ op[2] /= None
         -> Range(The(op[2]).ids)
    [] OTHER -> {}

\* C16: neighbors(z) and degree(vertex_subset=[z]) for an external id z that
\* is no endpoint of any edge fail with the unknown-identifier error; they do
\* not answer with an empty or zero result.
C16_UnknownIdRejected ==
  (edgelist /= None /\ Queried \ ExternalVertices /= {})
    => (err /= None /\ The(err).type = "UnknownIdentifierError")

\* the edges a representation of the graph stores, in internal identifiers
StoredRows ==
  IF edgelist /= None THEN The(edgelist).edgelist_df.rows
  ELSE IF adjlist /= None THEN ExpandForward(The(adjlist))
  ELSE <<>>

External(i) ==
  IF properties.renumbered /\ renumber_map /= None
  THEN ToExternal(The(renumber_map), i) ELSE i

\* the destinations of the stored edges that leave v, in external identifiers
DestinationsOf(v) ==
  LET found == SelectSeq(StoredRows, LAMBDA r : External(r.src) = v)
  IN  [i \in 1..Len(found) |-> External(found[i].dst)]

\* neighbors(v) has just been asked for a vertex v of the graph
AskedNeighborsOfVertex ==
  /\ op[1] = "neighbors"
  /\ \E x \in Endpoints(StoredRows) : External(x) = op[2]

NeighborsExact ==
  /\ err = None
  /\ ret /= None
  /\ BagOfSeq(The(ret)) = BagOfSeq(DestinationsOf(op[2]))

\* the graph holds the edge list built from the whole triangle
TriangleBuilt ==
  /\ edgelist /= None
  /\ input_df /= None
  /\ [i \in DOMAIN The(input_df).rows |-> Pair(The(input_df).rows[i])]
       = [i \in DOMAIN TriangleRows |-> Pair(TriangleRows[i])]

\* the example: directed, 3 vertices, 3 edges and neighbors(0) = [1];
\* undirected, six stored entries, 3 edges and neighbors(0) = {1, 2}
TriangleExample ==
  TriangleBuilt =>
    /\ op = <<"number_of_vertices">> => ret = Some(3)
    /\ op = <<"number_of_edges", FALSE>> => ret = Some(3)
    /\ properties.directed
         => (op = <<"neighbors", 0>> => ret = Some(<<1>>))
    /\ ~properties.directed
         => /\ Len(The(edgelist).edgelist_df.rows) = 6
            /\ op = <<"neighbors", 0>>
                 => (ret /= None /\ Range(The(ret)) = {1, 2})

\* C17 as stated: for every vertex v of the graph neighbors(v) returns
\* exactly the destinations of the stored edges (v, w) in external
\* identifiers, empty and without an error when there are none; and the
\* example of the triangle holds.
C17_NeighborsOfEveryGraph ==
  /\ AskedNeighborsOfVertex => NeighborsExact
  /\ TriangleExample

\* C17 amended: the same for every graph that holds its edge list; a graph
\* without an edge list answers neighbors(v) with a RuntimeError.
C17_NeighborsOfEdgeList ==
  /\ (AskedNeighborsOfVertex /\ edgelist /= None) => NeighborsExact
  /\ (op[1] = "neighbors" /\ edgelist = None)
       => (err /= None /\ The(err).type = "RuntimeError")
  /\ TriangleExample

C17_Witness ==
  /\ TriangleBuilt
  /\ ~properties.directed
  /\ properties.renumbered
  /\ op = <<"neighbors", 0>>
  /\ ret = Some(<<1, 2>>) \/ ret = Some(<<2, 1>>)

\* the identifiers of a frame are integers that are exactly 0..V-1
DenseIntegers(frame) ==
  /\ frame.dtype \in IntDtypes
  /\ Endpoints(frame.rows) = 0..(Cardinality(Endpoints(frame.rows)) - 1)

\* from_edgelist was called with renumber=False as the first call on the
\* object and went past its column checks
CalledWithoutRenumber ==
  op = <<"from_edgelist">> /\ input_df /= None /\ renumber_map = None

\* C18: from_edgelist with renumber=False on identifiers that are not
\* non-negative contiguous integers is rejected with an error and builds no
\* graph; renumber=False is accepted only on dense integers.
C18_RenumberMandatory ==
  (CalledWithoutRenumber /\ ~DenseIntegers(The(input_df)))
    => (err /= None /\ edgelist = None /\ plc_graph = None)

\* C19: a construction that renumbers is accepted, translating every external
\* identifier of the edge list to its internal id and back returns it, and
\* the internal ids, those of the map and those stored in the edge list, are
\* exactly 0..V-1 for V distinct external identifiers.
C19_RenumberRoundTrip ==
  (op = <<"from_edgelist">> /\ renumber_map /= None /\ edgelist /= None) =>
    LET map == The(renumber_map)
        ext == Endpoints(The(input_df).rows)
        stored == Endpoints(The(edgelist).edgelist_df.rows)
        V == Cardinality(ext)
    IN  /\ err = None
        /\ \A x \in ext :
             /\ ToInternal(map, x) /= None
             /\ ToExternal(map, The(ToInternal(map, x))) = x
        /\ {The(ToInternal(map, x)) : x \in ext} = 0..(V - 1)
        /\ stored = 0..(V - 1)
        /\ {ToExternal(map, i) : i \in stored} = ext

C19_Witness ==
  /\ Built
  /\ renumber_map /= None
  /\ The(renumber_map).is_renumbered
  /\ The(renumber_map).df_internal_to_external = <<1>>
  /\ Endpoints(The(edgelist).edgelist_df.rows) = {0}

\* the stored coordinate edge list holds no ordered pair twice
PairsOnce ==
  \A i, j \in DOMAIN The(edgelist).edgelist_df.rows :
    i /= j => Pair(The(edgelist).edgelist_df.rows[i])
                /= Pair(The(edgelist).edgelist_df.rows[j])

\* the stored edge list carries an edge id or an edge type column
CarriesIds ==
  The(edgelist).edgelist_df.cols \cap {edgeIdCol, edgeTypeCol} /= {}

C21_SomeRepresentation ==
  plc_graph /= None => ~NoRepresentation

\* the undirected edges {u, v} that a sequence of rows describes
UndirectedEdges(rows) ==
  {IF rows[i].src <= rows[i].dst THEN Pair(rows[i]) ELSE Pair(Swap(rows[i])) :
     i \in DOMAIN rows}

\* the stored edge list in external identifiers
StoredExternal ==
  [i \in DOMAIN The(edgelist).edgelist_df.rows |->
     [The(edgelist).edgelist_df.rows[i] EXCEPT !.src = External(@),
                                               !.dst = External(@)]]

\* C22: view_edge_list() of an undirected graph returns the upper triangle
\* of the stored symmetrized edge list, in external identifiers: every
\* undirected edge of the graph is returned, none in both directions, and
\* none twice unless the stored edge list holds it twice in one direction.
C22_UpperTriangleReturned ==
  (op = <<"view_edge_list">> /\ err = None /\ ~properties.directed) =>
    LET rows == The(ret)
    IN  /\ UndirectedEdges(rows) = UndirectedEdges(StoredExternal)
        /\ \A i, j \in DOMAIN rows :
             rows[i].src /= rows[i].dst => Pair(rows[i]) /= Pair(Swap(rows[j]))
        /\ PairsOnce
             => \A i, j \in DOMAIN rows : i /= j => Pair(rows[i]) /= Pair(rows[j])

ExternalTwoHop(start) ==
  {<<External(p[1]), External(p[2])>> :
     p \in {q \in Range(PlcTwoHop(The(plc_graph), None)) :
              start = None \/ External(q[1]) \in Range(The(start))}}

\* C24: get_two_hop_neighbors answers with the backend's pairs for the
\* start vertices, translated to internal ids on the way in and to external
\* identifiers on the way out, and select_random_vertices answers with
\* external identifiers of the backend's vertices; without renumbering the
\* ids pass unchanged.
C24_BoundaryTranslation ==
  /\ (op[1] = "get_two_hop_neighbors" /\ err = None)
       => /\ Range(The(ret)) = ExternalTwoHop(op[2])
          /\ \A p \in Range(The(ret)) : p[1] /= NA /\ p[2] /= NA
  /\ (op[1] = "select_random_vertices" /\ err = None)
       => /\ The(ret) \subseteq {External(v) : v \in PlcVertices(The(plc_graph))}
          /\ NA \notin The(ret)
          /\ op[2] = None
               => The(ret) = {External(v) : v \in PlcVertices(The(plc_graph))}

C24_Witness ==
  /\ op = <<"get_two_hop_neighbors", Some(<<1>>)>>
  /\ err = None
  /\ properties.renumbered
  /\ The(renumber_map).df_internal_to_external = <<1>>
  /\ ret = Some(<<<<1, 1>>>>)

ScoredPairs ==
  IF op[2] THEN DOMAIN The(ret)
  ELSE {<<The(ret)[i].first, The(ret)[i].second>> : i \in DOMAIN The(ret)}

\* C26: sorensen_coefficient(G, ebunch) computes the coefficient for exactly
\* the given vertex pairs whenever ebunch is provided, for a NetworkX graph
\* and for a cugraph Graph alike, and for all adjacent vertex pairs only
\* when ebunch is not provided.
C26_EbunchHonoured ==
  (op[1] = "sorensen_coefficient" /\ err = None) =>
    ScoredPairs = IF op[3] /= None THEN Range(The(op[3]))
                  ELSE {Pair(StoredExternal[i]) : i \in DOMAIN StoredExternal}

\* a derivation has just reached the backend build of the derived graph
DerivedBuilt ==
  /\ op[1] \in {"to_directed", "to_undirected"}
  /\ The(ret).handed /= None

\* C27: the graph derived by to_directed or to_undirected carries the edge
\* weights of the source graph, and the source, destination and weight
\* arrays handed to the backend for it have one length and are the columns
\* of the derived graph's own edge list.
C27_DerivedArraysAligned ==
  DerivedBuilt =>
    LET g == The(The(ret).handed)
        df == The(The(ret).graph.edgelist).edgelist_df
    IN  /\ edgeWeightCol \in The(edgelist).edgelist_df.cols
             => (edgeWeightCol \in df.cols /\ g.weight_array /= None)
        /\ g.src_or_offset_array = Column(df.rows, srcCol)
        /\ g.dst_or_index_array = Column(df.rows, dstCol)
        /\ g.weight_array /= None
             => /\ Len(The(g.weight_array).values) = Len(g.src_or_offset_array)
                /\ The(g.weight_array).values = Column(df.rows, edgeWeightCol)

\* number_of_edges() as it would answer on the object before the step and
\* on the object after it
EdgesBefore ==
  NumberOfEdgesRun(FALSE, edgelist, adjlist, transposedadjlist, properties)

EdgesAfter ==
  NumberOfEdgesRun(FALSE, edgelist', adjlist', transposedadjlist',
                   properties')

\* C28: view_edge_list() does not change the edge count: number_of_edges()
\* answers the same immediately before and immediately after the call, and
\* that answer is the number of rows view_edge_list() returned.
C28_ViewKeepsEdgeCount ==
  [][(op' = <<"view_edge_list">> /\ err' = None)
       => /\ EdgesBefore.stop = 0
          /\ EdgesAfter.stop = 0
          /\ EdgesBefore.count = EdgesAfter.count
          /\ EdgesAfter.count = Len(The(ret'))]_vars

\* the edge data an implementation stores carries weights
CarriesWeights(el, adj) ==
  \/ el /= None /\ edgeWeightCol \in The(el).edgelist_df.cols
  \/ adj /= None /\ The(adj).weights /= None

\* C29: properties.weighted is true exactly when the stored edge data carries
\* a weight column: on the graph a construction call has filled, and on the
\* graph that to_directed or to_undirected derives from it.
C29_WeightedFlag ==
  /\ (edgelist /= None \/ adjlist /= None)
       => (properties.weighted <=> CarriesWeights(edgelist, adjlist))
  /\ (op[1] \in {"to_directed", "to_undirected"} /\ ret /= None)
       => LET X == The(ret).graph
          IN  (X.edgelist /= None \/ X.adjlist /= None)
                => (X.properties.weighted
                      <=> CarriesWeights(X.edgelist, X.adjlist))

\* the node set of G
NodesOf(G) == {NodeKey(i) : i \in 0..(G.N - 1)}

\* the communities that hold the node
CommunitiesOf(node) == {k \in DOMAIN The(ret) : node \in The(ret)[k]}

====
